---- MODULE Spec2Model ----
(***************************************************************************)
(* Verification model of the Workshifts optimisation core: the evaluator   *)
(* (fitness.js / evaluator.js), the schedule GA (ga/geneticAlgorithm.js,   *)
(* ga/operators.js), the matrix GA (matrixGenerator half of evaluator.js), *)
(* the optimiser front end (optimizer.js) and the worker (worker.js).      *)
(*                                                                         *)
(* Conventions.                                                            *)
(*  - A shift code is a sequence of characters (<<"M">>, <<"M","_","1">>)  *)
(*    so that String.startsWith can be modelled.                           *)
(*  - JavaScript arrays are 0-based, TLA+ sequences 1-based: At(s, i) is   *)
(*    the JavaScript s[i].                                                 *)
(*  - Hours are rationals with denominator 7 (daysInMonth / 7).  Every     *)
(*    hour-valued quantity, and the fitness that sums them, is carried as  *)
(*    an integer number of sevenths (suffix 7 in comments: X7 = 7 * X).    *)
(*  - Math.random() is a nondeterministic choice.                          *)
(***************************************************************************)
EXTENDS Integers, Sequences, FiniteSets, TLC

\* ------------------------------------------------------------------------
\* Bounds of the model
\* ------------------------------------------------------------------------
DaysEval == 2

\* ------------------------------------------------------------------------
\* Generic helpers
\* ------------------------------------------------------------------------
At(s, i) == s[i + 1]

Abs(x) == IF x < 0 THEN -x ELSE x

Min2(a, b) == IF a < b THEN a ELSE b

RECURSIVE SeqSum(_)
SeqSum(s) == IF s = <<>> THEN 0 ELSE Head(s) + SeqSum(Tail(s))

RECURSIVE Flatten(_)
Flatten(ss) == IF ss = <<>> THEN <<>> ELSE Head(ss) \o Flatten(Tail(ss))

Includes(s, x) == \E i \in 1..Len(s) : s[i] = x

\* Ascending sequence of the indices i in lo..hi that satisfy P
IdxSeq(lo, hi, P(_)) ==
  LET F[i \in (lo - 1)..hi] ==
        IF i < lo THEN <<>>
        ELSE IF P(i) THEN Append(F[i - 1], i) ELSE F[i - 1]
  IN IF hi < lo THEN <<>> ELSE F[hi]

\* ------------------------------------------------------------------------
\* Shift codes and the configuration fixture
\* ------------------------------------------------------------------------
M  == <<"M">>
N  == <<"N">>
R  == <<"R">>
M1 == <<"M", "_", "1">>

ShiftTypes ==
  << [id |-> M, hours |-> 7], [id |-> N, hours |-> 10], [id |-> R, hours |-> 0] >>

ShiftIdSet(shiftTypes) == {shiftTypes[i].id : i \in 1..Len(shiftTypes)}

EmpIds == {"e1", "e2"}

Constraints ==
  << [id |-> "c1", type |-> "must_follow",     shiftA |-> N, shiftB |-> R, shift |-> <<>>, days |-> 0, enabled |-> TRUE],
     [id |-> "c2", type |-> "cannot_follow",   shiftA |-> N, shiftB |-> M, shift |-> <<>>, days |-> 0, enabled |-> TRUE],
     [id |-> "c3", type |-> "max_consecutive", shiftA |-> <<>>, shiftB |-> <<>>, shift |-> M, days |-> 1, enabled |-> TRUE],
     [id |-> "c4", type |-> "cannot_follow",   shiftA |-> R, shiftB |-> R, shift |-> <<>>, days |-> 0, enabled |-> FALSE] >>

\* ------------------------------------------------------------------------
\* constraints.js
\* ------------------------------------------------------------------------
StartsWith(s, p) == Len(p) <= Len(s) /\ SubSeq(s, 1, Len(p)) = p

\* variant: exact match only
shiftMatches_exact(shift, targetId) ==
  IF shift = <<>> \/ targetId = <<>> THEN FALSE
  ELSE shift = targetId

shiftMatches(shift, targetId) ==
  IF shift = <<>> \/ targetId = <<>> THEN FALSE
  ELSE shift = targetId \/ StartsWith(shift, targetId \o <<"_">>)

\* length of the run of matching (or of non-matching) cells that ends at i
RunLen(shifts, sh, wanted) ==
  LET F[i \in 0..Len(shifts)] ==
        IF i = 0 THEN 0
        ELSE IF shiftMatches(shifts[i], sh) = wanted THEN F[i - 1] + 1 ELSE 0
  IN F

ConstraintErrors(c, shifts, validShiftIds) ==
  LET n == Len(shifts)
      Err(d) == [day |-> d, constraintId |-> c.id]
      pairOk == Includes(validShiftIds, c.shiftA) /\ Includes(validShiftIds, c.shiftB)
      days(P(_), lo, hi) == IdxSeq(lo, hi, P)
      mk(idx, off) == [k \in 1..Len(idx) |-> Err(idx[k] + off)]
  IN CASE c.type = "must_follow" ->
            IF pairOk
              THEN mk(days(LAMBDA i : shiftMatches(At(shifts, i), c.shiftA)
                                      /\ ~shiftMatches(At(shifts, i + 1), c.shiftB), 0, n - 2), 0)
              ELSE <<>>
       [] c.type = "cannot_follow" ->
            IF pairOk
              THEN mk(days(LAMBDA i : shiftMatches(At(shifts, i), c.shiftA)
                                      /\ shiftMatches(At(shifts, i + 1), c.shiftB), 0, n - 2), 1)
              ELSE <<>>
       [] c.type = "must_precede" ->
            IF pairOk
              THEN mk(days(LAMBDA i : shiftMatches(At(shifts, i), c.shiftB)
                                      /\ ~shiftMatches(At(shifts, i - 1), c.shiftA), 1, n - 1), 0)
              ELSE <<>>
       [] c.type = "cannot_precede" ->
            IF pairOk
              THEN mk(days(LAMBDA i : shiftMatches(At(shifts, i), c.shiftB)
                                      /\ shiftMatches(At(shifts, i - 1), c.shiftA), 1, n - 1), 0)
              ELSE <<>>
       [] c.type = "max_consecutive_without" ->
            IF Includes(validShiftIds, c.shift)
              THEN mk(days(LAMBDA i : RunLen(shifts, c.shift, FALSE)[i + 1] > c.days, 0, n - 1), 0)
              ELSE <<>>
       [] c.type = "max_consecutive" ->
            IF Includes(validShiftIds, c.shift)
              THEN mk(days(LAMBDA i : RunLen(shifts, c.shift, TRUE)[i + 1] > c.days, 0, n - 1), 0)
              ELSE <<>>
       [] c.type = "min_gap" ->
            IF pairOk
              THEN Flatten([k \in 1..n |->
                     IF shiftMatches(shifts[k], c.shiftA)
                       THEN mk(days(LAMBDA j : (k - 1) + j < n
                                               /\ shiftMatches(At(shifts, (k - 1) + j), c.shiftB),
                                    1, c.days), k - 1)
                       ELSE <<>>])
              ELSE <<>>
       [] OTHER -> <<>>

validateSequenceWithConstraints(shifts, constraints, shiftTypes) ==
  LET activeConstraints == SelectSeq(constraints, LAMBDA c : c.enabled)
      validShiftIds == [i \in 1..Len(shiftTypes) |-> shiftTypes[i].id]
  IN Flatten([k \in 1..Len(activeConstraints) |->
                ConstraintErrors(activeConstraints[k], shifts, validShiftIds)])

\* Strict(v, F): F applied to the value of v, v being evaluated once (TLC
\* evaluates an argument again at every function application f[i] on it)
Strict(v, F(_)) == CHOOSE out \in {F(x) : x \in {v}} : TRUE

\* Array.prototype.sort with a comparator that is a total preorder (stable)
StableSort(s, Less(_, _)) ==
  LET RECURSIVE Insert(_, _)
      Insert(t, x) ==
        IF t = <<>> THEN <<x>>
        ELSE IF Less(x, Head(t)) THEN <<x>> \o t
        ELSE <<Head(t)>> \o Insert(Tail(t), x)
      RECURSIVE Sorted(_)
      Sorted(rest) == IF rest = <<>> THEN <<>> ELSE Insert(Sorted(SubSeq(rest, 1, Len(rest) - 1)), rest[Len(rest)])
  IN Sorted(s)

\* a || b on numbers
OrElse(a, b) == IF a = 0 THEN b ELSE a

\* { ...base, ...over }
Spread(base, over) ==
  [k \in (DOMAIN base) \cup (DOMAIN over) |-> IF k \in DOMAIN over THEN over[k] ELSE base[k]]

\* ------------------------------------------------------------------------
\* ga/fitness.js
\* ------------------------------------------------------------------------
WEIGHTS ==
  [CONSTRAINT_VIOLATION |-> 10000, COVERAGE_VIOLATION |-> 10000, EXCLUSION_VIOLATION |-> 10000,
   HOURS_UNDER |-> 15, HOURS_OVER |-> 8, MATRIX_CHANGE |-> 3]

countConstraintViolations(shifts, constraints, shiftTypes) ==
  Len(validateSequenceWithConstraints(shifts, constraints, shiftTypes))

\* worked, expected7 = 7 * expected, deviation7, penalty7
\* variant: over-contract hours weighted like under-contract hours
calculateHoursDeviation_symmetric(shifts, employee, shiftTypes, daysInMonth, weights) ==
  LET hoursOf(shiftId) ==
        LET idx == {i \in 1..Len(shiftTypes) : shiftTypes[i].id = shiftId}
        IN IF idx = {} THEN 0 ELSE shiftTypes[CHOOSE i \in idx : \A k \in idx : i <= k].hours
      worked == SeqSum([k \in 1..Len(shifts) |-> hoursOf(shifts[k])])
      expected7 == employee.contractHours * daysInMonth
      deviation7 == 7 * worked - expected7
      penalty7 == Abs(deviation7) * OrElse(weights.HOURS_UNDER, WEIGHTS.HOURS_UNDER)
  IN [worked |-> worked, expected7 |-> expected7, deviation7 |-> deviation7, penalty7 |-> penalty7]

calculateHoursDeviation(shifts, employee, shiftTypes, daysInMonth, weights) ==
  LET hoursOf(shiftId) ==
        LET idx == {i \in 1..Len(shiftTypes) : shiftTypes[i].id = shiftId}
        IN IF idx = {} THEN 0 ELSE shiftTypes[CHOOSE i \in idx : \A k \in idx : i <= k].hours
      worked == SeqSum([k \in 1..Len(shifts) |-> hoursOf(shifts[k])])
      expected7 == employee.contractHours * daysInMonth
      deviation7 == 7 * worked - expected7
      penalty7 == IF deviation7 < 0
                    THEN Abs(deviation7) * OrElse(weights.HOURS_UNDER, WEIGHTS.HOURS_UNDER)
                    ELSE deviation7 * OrElse(weights.HOURS_OVER, WEIGHTS.HOURS_OVER)
  IN [worked |-> worked, expected7 |-> expected7, deviation7 |-> deviation7, penalty7 |-> penalty7]

\* variant: only under-coverage is recorded
checkDayCoverage_underOnly(scheduleByEmployee, day, coverageRules) ==
  LET counts(shiftId) ==
        Cardinality({e \in DOMAIN scheduleByEmployee : At(scheduleByEmployee[e], day) = shiftId})
      actual(rule) == SeqSum([k \in 1..Len(rule.shiftIds) |-> counts(rule.shiftIds[k])])
      hit == SelectSeq(coverageRules, LAMBDA rule : ~(rule.min <= 0) /\ actual(rule) < rule.min)
      details == [k \in 1..Len(hit) |->
                    [day |-> day, ruleId |-> hit[k].id, required |-> hit[k].min,
                     actual |-> actual(hit[k]), deviation |-> Abs(hit[k].min - actual(hit[k])),
                     type |-> IF actual(hit[k]) < hit[k].min THEN "under" ELSE "over"]]
  IN [violations |-> SeqSum([k \in 1..Len(details) |-> details[k].deviation]),
      details |-> details]

checkDayCoverage(scheduleByEmployee, day, coverageRules) ==
  LET counts(shiftId) ==
        Cardinality({e \in DOMAIN scheduleByEmployee : At(scheduleByEmployee[e], day) = shiftId})
      actual(rule) == SeqSum([k \in 1..Len(rule.shiftIds) |-> counts(rule.shiftIds[k])])
      hit == SelectSeq(coverageRules, LAMBDA rule : ~(rule.min <= 0) /\ actual(rule) # rule.min)
      details == [k \in 1..Len(hit) |->
                    [day |-> day, ruleId |-> hit[k].id, required |-> hit[k].min,
                     actual |-> actual(hit[k]), deviation |-> Abs(hit[k].min - actual(hit[k])),
                     type |-> IF actual(hit[k]) < hit[k].min THEN "under" ELSE "over"]]
  IN [violations |-> SeqSum([k \in 1..Len(details) |-> details[k].deviation]),
      details |-> details]

countMatrixDeviations(shifts, matrixShifts) ==
  Cardinality({i \in 1..Min2(Len(shifts), Len(matrixShifts)) : shifts[i] # matrixShifts[i]})

\* ------------------------------------------------------------------------
\* evaluator.js (schedule evaluator)
\* ------------------------------------------------------------------------
validateCoverage(schedule, daysInMonth, coverageRules, shiftTypes) ==
  LET baseOf(shift) ==
        LET idx == {i \in 1..Len(shiftTypes) : shiftMatches(shift, shiftTypes[i].id)}
        IN IF idx = {} THEN <<>> ELSE shiftTypes[CHOOSE i \in idx : \A k \in idx : i <= k].id
      dailyCounts(day, shiftId) ==
        IF ~Includes([i \in 1..Len(shiftTypes) |-> shiftTypes[i].id], shiftId) THEN 0
        ELSE Cardinality({e \in DOMAIN schedule :
                             /\ day < Len(schedule[e].shifts)
                             /\ At(schedule[e].shifts, day) # <<>>
                             /\ baseOf(At(schedule[e].shifts, day)) = shiftId})
      actual(day, rule) == SeqSum([k \in 1..Len(rule.shiftIds) |-> dailyCounts(day, rule.shiftIds[k])])
      ofDay(day) ==
        LET hit == SelectSeq(coverageRules,
                             LAMBDA rule : ~(rule.min <= 0) /\ (actual(day, rule) < rule.min
                                                                \/ actual(day, rule) > rule.min))
        IN [k \in 1..Len(hit) |->
              [type |-> "coverage", day |-> day + 1, employeeId |-> "", constraintId |-> hit[k].id]]
  IN Flatten([d \in 1..daysInMonth |-> ofDay(d - 1)])

validateExclusions(schedule, employees, daysInMonth) ==
  LET ofEmp(emp) ==
        IF Len(emp.excludedShifts) = 0 \/ emp.id \notin DOMAIN schedule THEN <<>>
        ELSE LET shifts == schedule[emp.id].shifts
                 isExcluded(day) ==
                   /\ day < Len(shifts)
                   /\ At(shifts, day) # <<>>
                   /\ \E x \in 1..Len(emp.excludedShifts) :
                         shiftMatches(At(shifts, day), emp.excludedShifts[x])
                 ds == IdxSeq(0, daysInMonth - 1, isExcluded)
             IN [k \in 1..Len(ds) |->
                   [type |-> "exclusion", day |-> ds[k] + 1, employeeId |-> emp.id,
                    constraintId |-> "exclusion"]]
  IN Flatten([i \in 1..Len(employees) |-> ofEmp(employees[i])])

validateSequences(schedule, employees, constraints, shiftTypes) ==
  LET ofEmp(emp) ==
        IF emp.id \notin DOMAIN schedule THEN <<>>
        ELSE LET errors == validateSequenceWithConstraints(schedule[emp.id].shifts, constraints, shiftTypes)
             IN [k \in 1..Len(errors) |->
                   [type |-> "constraint", day |-> errors[k].day + 1, employeeId |-> emp.id,
                    constraintId |-> errors[k].constraintId]]
  IN Flatten([i \in 1..Len(employees) |-> ofEmp(employees[i])])

evaluateSchedule(schedule, employees, shiftTypes, constraints, coverageRules, daysInMonth) ==
  IF DOMAIN schedule = {}
    THEN [warnings |-> <<>>,
          summary |-> [totalWarnings |-> 0, constraintViolations |-> 0, coverageViolations |-> 0,
                       exclusionViolations |-> 0, isValid |-> TRUE]]
    ELSE
      LET sequenceWarnings  == validateSequences(schedule, employees, constraints, shiftTypes)
          coverageWarnings  == validateCoverage(schedule, daysInMonth, coverageRules, shiftTypes)
          exclusionWarnings == validateExclusions(schedule, employees, daysInMonth)
          allWarnings == sequenceWarnings \o coverageWarnings \o exclusionWarnings
          typeOrder(t) == CASE t = "exclusion" -> 0 [] t = "constraint" -> 1 [] OTHER -> 2
          less(a, b) == IF a.day # b.day THEN a.day < b.day ELSE typeOrder(a.type) < typeOrder(b.type)
      IN [warnings |-> StableSort(allWarnings, less),
          summary |-> [totalWarnings |-> Len(allWarnings),
                       constraintViolations |-> Len(sequenceWarnings),
                       coverageViolations |-> Len(coverageWarnings),
                       exclusionViolations |-> Len(exclusionWarnings),
                       isValid |-> Len(allWarnings) = 0]]

\* validateSchedule is imported by ga/fitness.js from the richer evaluator.js;
\* it aggregates the per-employee and per-day checks (section 4.2).
validateSchedule(schedule, ctx) ==
  LET emps == SelectSeq(ctx.employees, LAMBDA emp : emp.id \in DOMAIN schedule)
      cv == SeqSum([i \in 1..Len(emps) |->
                      countConstraintViolations(schedule[emps[i].id], ctx.constraints, ctx.shiftTypes)])
      cov == SeqSum([d \in 1..ctx.daysInMonth |->
                       checkDayCoverage(schedule, d - 1, ctx.coverageRules).violations])
      ex == SeqSum([i \in 1..Len(emps) |->
                      Cardinality({d \in 1..Len(schedule[emps[i].id]) :
                                     \E x \in 1..Len(emps[i].excludedShifts) :
                                        shiftMatches(schedule[emps[i].id][d], emps[i].excludedShifts[x])})])
      hp7 == SeqSum([i \in 1..Len(emps) |->
                       calculateHoursDeviation(schedule[emps[i].id], emps[i], ctx.shiftTypes,
                                               ctx.daysInMonth, ctx.weights).penalty7])
      md == SeqSum([i \in 1..Len(emps) |->
                      countMatrixDeviations(schedule[emps[i].id],
                                            IF emps[i].id \in DOMAIN ctx.baselineShifts
                                              THEN ctx.baselineShifts[emps[i].id] ELSE <<>>)])
  IN [isValid |-> cv = 0 /\ cov = 0 /\ ex = 0,
      violations |-> [constraint |-> cv, coverage |-> cov, exclusion |-> ex],
      metrics |-> [hoursPenalty7 |-> hp7, matrixDeviations |-> md]]

\* fitness7 = 7 * fitness
evaluateFitness(chromosome, context) ==
  LET Total(weights, validation) ==
        [fitness7 |-> 7 * (validation.violations.constraint * weights.CONSTRAINT_VIOLATION
                            + validation.violations.coverage * weights.COVERAGE_VIOLATION
                            + validation.violations.exclusion * weights.EXCLUSION_VIOLATION
                            + validation.metrics.matrixDeviations * weights.MATRIX_CHANGE)
                       + validation.metrics.hoursPenalty7,
         isValid |-> validation.isValid,
         components |-> [constraintViolations |-> validation.violations.constraint,
                         coverageViolations |-> validation.violations.coverage,
                         exclusionViolations |-> validation.violations.exclusion,
                         hoursPenalty7 |-> validation.metrics.hoursPenalty7,
                         matrixDeviations |-> validation.metrics.matrixDeviations]]
      Validated(weights) ==
        Total(weights, validateSchedule(chromosome.schedule, [context EXCEPT !.weights = weights]))
  IN Validated(Spread(WEIGHTS, context.weights))

\* the second evaluateFitness of ga/fitness.js (lines 272-344), which sums the
\* per-employee and per-day checks itself; fitness7 = 7 * fitness
evaluateFitnessInline(chromosome, context) ==
  LET weights == Spread(WEIGHTS, context.weights)
      emps == SelectSeq(context.employees, LAMBDA emp : emp.id \in DOMAIN chromosome.schedule)
      totalConstraintViolations ==
        SeqSum([i \in 1..Len(emps) |->
                  countConstraintViolations(chromosome.schedule[emps[i].id], context.constraints,
                                            context.shiftTypes)])
      totalHoursPenalty7 ==
        SeqSum([i \in 1..Len(emps) |->
                  calculateHoursDeviation(chromosome.schedule[emps[i].id], emps[i], context.shiftTypes,
                                          context.daysInMonth, weights).penalty7])
      totalMatrixDeviations ==
        SeqSum([i \in 1..Len(emps) |->
                  countMatrixDeviations(chromosome.schedule[emps[i].id],
                                        IF emps[i].id \in DOMAIN context.baselineShifts
                                          THEN context.baselineShifts[emps[i].id] ELSE <<>>)])
      totalCoverageViolations ==
        SeqSum([d \in 1..context.daysInMonth |->
                  checkDayCoverage(chromosome.schedule, d - 1, context.coverageRules).violations])
  IN [fitness7 |-> 7 * (totalConstraintViolations * weights.CONSTRAINT_VIOLATION
                        + totalCoverageViolations * weights.COVERAGE_VIOLATION
                        + totalMatrixDeviations * weights.MATRIX_CHANGE)
                   + totalHoursPenalty7,
      isValid |-> totalConstraintViolations = 0 /\ totalCoverageViolations = 0,
      components |-> [constraintViolations |-> totalConstraintViolations,
                      coverageViolations |-> totalCoverageViolations,
                      hoursPenalty7 |-> totalHoursPenalty7,
                      matrixDeviations |-> totalMatrixDeviations]]

\* ------------------------------------------------------------------------
\* optimizer.js: greedy baseline (calendar path, no previous month)
\* ------------------------------------------------------------------------
findOptimalMatrixAssignment(employees, matrix) ==
  [idx \in 1..Len(employees) |->
     [employeeId |-> employees[idx].id, matrixRow |-> (idx - 1) % Len(matrix),
      dayOffset |-> 0, hasHistory |-> FALSE]]

\* schedule[emp.id].shifts of solveWithGreedy(params); every employee of the
\* scenario is assigned to the one matrix
solveWithGreedy(employees, matrix, daysInMonth, dayOfWeekOffset) ==
  LET rowLength == Len(matrix[1])
      fullPattern == Flatten(matrix)
      assignments == findOptimalMatrixAssignment(employees, matrix)
      shiftsOf(idx) ==
        LET a == assignments[idx]
            effectiveDOW == IF a.hasHistory THEN 0 ELSE dayOfWeekOffset
            startIndex == a.matrixRow * rowLength + a.dayOffset
        IN [day \in 1..daysInMonth |->
              At(fullPattern, (startIndex + (day - 1) + effectiveDOW) % Len(fullPattern))]
  IN [e \in {employees[i].id : i \in 1..Len(employees)} |->
        shiftsOf(CHOOSE i \in 1..Len(employees) : employees[i].id = e)]

\* ------------------------------------------------------------------------
\* optimizer.js: greedy baseline with a previous-month schedule
\* ------------------------------------------------------------------------
\* A continuity score matches / checkDays is the pair [num, den].
ScoreLess(a, b) == a.num * b.den < b.num * a.den

\* score >= 0.4
Reliable(score) == 5 * score.num >= 2 * score.den

\* previousMonthSchedule[emp.id], <<>> when the employee has no entry
lastShiftsOf(previousMonthSchedule, id) ==
  IF id \in DOMAIN previousMonthSchedule THEN previousMonthSchedule[id] ELSE <<>>

calculateContinuityScore(lastShifts, matrix, matrixRow, startOffset) ==
  IF Len(lastShifts) = 0 \/ Len(matrix) = 0 THEN [num |-> 0, den |-> 1]
  ELSE [num |-> Cardinality({i \in 0..(Min2(Len(lastShifts), 28) - 1) :
                               At(lastShifts, Len(lastShifts) - Min2(Len(lastShifts), 28) + i)
                                 = At(Flatten(matrix),
                                      (matrixRow * Len(matrix[1]) + startOffset + i) % Len(Flatten(matrix)))}),
        den |-> Min2(Len(lastShifts), 28)]

\* findOptimalMatrixAssignment, step 1: empScores of one employee
empScores(lastShifts, matrix) ==
  IF Len(lastShifts) = 0
    THEN [row \in 1..Len(matrix) |-> [score |-> [num |-> 0, den |-> 1], row |-> 0, offset |-> 0, checkDays |-> 0]]
    ELSE [row \in 1..Len(matrix) |->
            LET rowLength == Len(matrix[1])
                scoreAt(offset) == calculateContinuityScore(lastShifts, matrix, row - 1, offset)
                bestOffset == CHOOSE o \in 0..(rowLength - 1) :
                                /\ \A o2 \in 0..(rowLength - 1) : ~ScoreLess(scoreAt(o), scoreAt(o2))
                                /\ \A o2 \in 0..(o - 1) : ScoreLess(scoreAt(o2), scoreAt(o))
                checkDays == Min2(Len(lastShifts), 28)
                newTotalIndex == ((row - 1) * rowLength + bestOffset + checkDays) % (Len(matrix) * rowLength)
            IN [score |-> scoreAt(bestOffset), row |-> newTotalIndex \div rowLength,
                offset |-> newTotalIndex % rowLength, checkDays |-> checkDays]]

\* Math.max(...scores.map(s => s.score))
maxScore(scores) ==
  scores[CHOOSE i \in 1..Len(scores) : \A j \in 1..Len(scores) : ~ScoreLess(scores[i].score, scores[j].score)].score

\* findOptimalMatrixAssignment, step 2: the employees in sortedEmps order take
\* their best-scoring row that has capacity left; scoring[k] = [emp, scores]
RECURSIVE greedyAssign(_, _, _, _, _)
greedyAssign(sortedEmps, k, rowUsage, maxPerRow, previousMonthSchedule) ==
  IF k > Len(sortedEmps) THEN <<>>
  ELSE LET scores == sortedEmps[k].scores
           availableScores == StableSort([i \in 1..Len(scores) |-> i],
                                         LAMBDA a, b : ScoreLess(scores[b].score, scores[a].score))
           free == {n \in 1..Len(availableScores) : rowUsage[scores[availableScores[n]].row] < maxPerRow}
           bestRowIdx == IF free = {} THEN availableScores[1]
                         ELSE availableScores[CHOOSE n \in free : \A n2 \in free : n <= n2]
           chosen == scores[bestRowIdx]
       IN << [employeeId |-> sortedEmps[k].emp.id, matrixRow |-> chosen.row, dayOffset |-> chosen.offset,
              continuityScore |-> chosen.score,
              historyLength |-> Len(lastShiftsOf(previousMonthSchedule, sortedEmps[k].emp.id)),
              checkDays |-> chosen.checkDays, targetNextOffset |-> chosen.offset,
              rawScore |-> chosen.score, hasHistory |-> FALSE] >>
          \o greedyAssign(sortedEmps, k + 1, [rowUsage EXCEPT ![chosen.row] = @ + 1], maxPerRow,
                          previousMonthSchedule)

\* votes of the reliable assignments with history for each targetNextOffset,
\* and the first phase (in ascending key order) with the most votes
phaseVotes(assignments, phase) ==
  Cardinality({k \in 1..Len(assignments) :
                 /\ Reliable(assignments[k].rawScore) /\ assignments[k].historyLength > 0
                 /\ assignments[k].targetNextOffset = phase})

votedPhases(assignments) ==
  {assignments[k].targetNextOffset : k \in {j \in 1..Len(assignments) :
      Reliable(assignments[j].rawScore) /\ assignments[j].historyLength > 0}}

dominantPhase(assignments) ==
  CHOOSE p \in votedPhases(assignments) :
    \A q \in votedPhases(assignments) :
       \/ phaseVotes(assignments, q) < phaseVotes(assignments, p)
       \/ phaseVotes(assignments, q) = phaseVotes(assignments, p) /\ p <= q

useDominantPhase(assignments) ==
  \E p \in votedPhases(assignments) : phaseVotes(assignments, p) >= 2

alignToPhase_keepUnaligned(a, lastShifts, matrix, phase) ==
  IF Len(lastShifts) = 0 THEN a
  ELSE IF a.targetNextOffset = phase /\ Reliable(a.rawScore) THEN [a EXCEPT !.hasHistory = TRUE]
  ELSE [a EXCEPT !.hasHistory = Reliable(a.rawScore)]

\* findOptimalMatrixAssignment, phase synchronization of one assignment
alignToPhase(a, lastShifts, matrix, phase) ==
  IF Len(lastShifts) = 0 THEN a
  ELSE IF a.targetNextOffset = phase /\ Reliable(a.rawScore) THEN [a EXCEPT !.hasHistory = TRUE]
  ELSE LET rowLength == Len(matrix[1])
           requiredStartOffset == (phase - Min2(Len(lastShifts), 28)) % rowLength
           scoreOf(row) == calculateContinuityScore(lastShifts, matrix, row, requiredStartOffset)
           bestRow == CHOOSE row \in 0..(Len(matrix) - 1) :
                        /\ \A r2 \in 0..(Len(matrix) - 1) : ~ScoreLess(scoreOf(row), scoreOf(r2))
                        /\ \A r2 \in 0..(row - 1) : ScoreLess(scoreOf(r2), scoreOf(row))
       IN [a EXCEPT !.matrixRow = bestRow, !.dayOffset = phase, !.continuityScore = scoreOf(bestRow),
                    !.hasHistory = TRUE]

\* findOptimalMatrixAssignment(employees, matrix, previousMonthSchedule,
\* cycleLength, forcedPhase); forcedPhase is <<>> for null, <<p>> otherwise
findOptimalMatrixAssignmentFrom(employees, matrix, previousMonthSchedule, forcedPhase) ==
  IF DOMAIN previousMonthSchedule = {}
    THEN [idx \in 1..Len(employees) |->
            [employeeId |-> employees[idx].id, matrixRow |-> (idx - 1) % Len(matrix), dayOffset |-> 0,
             continuityScore |-> [num |-> 0, den |-> 1], historyLength |-> 0, checkDays |-> 0,
             targetNextOffset |-> 0, rawScore |-> [num |-> 0, den |-> 1], hasHistory |-> FALSE]]
    ELSE LET scoring == [i \in 1..Len(employees) |->
                           [emp |-> employees[i],
                            scores |-> empScores(lastShiftsOf(previousMonthSchedule, employees[i].id), matrix)]]
             sortedEmps == StableSort(scoring, LAMBDA a, b : ScoreLess(maxScore(b.scores), maxScore(a.scores)))
             maxPerRow == (Len(employees) + Len(matrix) - 1) \div Len(matrix)
             assignments == greedyAssign(sortedEmps, 1, [row \in 0..(Len(matrix) - 1) |-> 0], maxPerRow,
                                         previousMonthSchedule)
             aligned(phase) ==
               [k \in 1..Len(assignments) |->
                  alignToPhase(assignments[k], lastShiftsOf(previousMonthSchedule, assignments[k].employeeId),
                               matrix, phase)]
         IN IF forcedPhase # <<>> THEN aligned(forcedPhase[1])
            ELSE IF useDominantPhase(assignments) THEN aligned(dominantPhase(assignments))
            ELSE [k \in 1..Len(assignments) |->
                    [assignments[k] EXCEPT !.hasHistory =
                       Reliable(assignments[k].rawScore) /\ assignments[k].historyLength > 0]]

\* utils/dates.js: getFirstDayOfMonth, from Date.getDay() of the first day
getFirstDayOfMonth_sundayBased(day) == day

getFirstDayOfMonth(day) == IF day = 0 THEN 6 ELSE day - 1

\* solveWithGreedy(params) with params.previousMonthSchedule: the final
\* assignments of every matrix group and schedule[emp.id].shifts
solveWithGreedyFrom(employees, matrixMap, defaultMatrix, previousMonthSchedule, daysInMonth, dayOfWeekOffset) ==
  LET matrixIds == [k \in 1..Len(employees) |-> employees[k].matrixId]
      \* Object.keys(employeesByMatrix): the ids in order of first appearance
      firstOfGroup == IdxSeq(1, Len(employees), LAMBDA k : \A j \in 1..(k - 1) : matrixIds[j] # matrixIds[k])
      groupIds == [n \in 1..Len(firstOfGroup) |-> matrixIds[firstOfGroup[n]]]
      group(id) == SelectSeq(employees, LAMBDA e : e.matrixId = id)
      matrixOf(id) == IF id \in DOMAIN matrixMap THEN matrixMap[id] ELSE defaultMatrix
      pass(forcedPhase) ==
        Flatten([g \in 1..Len(groupIds) |->
                   findOptimalMatrixAssignmentFrom(group(groupIds[g]), matrixOf(groupIds[g]),
                                                   previousMonthSchedule, forcedPhase)])
      unravel(emp, allAssignments) ==
        LET a == allAssignments[CHOOSE k \in 1..Len(allAssignments) : allAssignments[k].employeeId = emp.id]
            matrix == matrixOf(emp.matrixId)
            fullPattern == Flatten(matrix)
            effectiveDOW == IF a.hasHistory THEN 0 ELSE dayOfWeekOffset
            startIndex == a.matrixRow * Len(matrix[1]) + a.dayOffset
        IN [day \in 1..daysInMonth |->
              At(fullPattern, (startIndex + (day - 1) + effectiveDOW) % Len(fullPattern))]
      solved(allAssignments) ==
        [assignments |-> allAssignments,
         schedule |-> [id \in {employees[k].id : k \in 1..Len(employees)} |->
                         unravel(employees[CHOOSE k \in 1..Len(employees) : employees[k].id = id], allAssignments)]]
      secondPass(preliminaryAssignments) ==
        solved(pass(IF useDominantPhase(preliminaryAssignments)
                      THEN << dominantPhase(preliminaryAssignments) >> ELSE <<>>))
  IN secondPass(pass(<<>>))

\* ------------------------------------------------------------------------
\* ga/geneticAlgorithm.js, ga/operators.js
\* ------------------------------------------------------------------------
POPULATION_SIZE  == 500
MAX_GENERATIONS  == 10000
TOURNAMENT_SIZE  == 5
ELITE_COUNT      == 20
STAGNATION_LIMIT == 1000
TARGET_FITNESS   == 0
TIMEOUT_MS       == 3000000
\* rates in hundredths: CROSSOVER_RATE 0.8, MUTATION_RATE 0.08
CROSSOVER_RATE   == 80
MUTATION_RATE    == 8

\* shiftIds.filter(s => !emp.excludedShifts.includes(s))
validShiftsOf(emp, shiftTypes) ==
  {shiftTypes[i].id : i \in {j \in 1..Len(shiftTypes) : ~Includes(emp.excludedShifts, shiftTypes[j].id)}}

\* the schedules initializePopulation can build for an individual i >= 1:
\* every cell keeps the baseline shift or takes any valid shift of its employee
PerturbedSchedules(baseline, employees, shiftTypes, daysInMonth) ==
  LET emp(e) == employees[CHOOSE i \in 1..Len(employees) : employees[i].id = e]
      codes == ShiftIdSet(shiftTypes) \cup UNION {{baseline[e][d] : d \in DOMAIN baseline[e]} : e \in DOMAIN baseline}
  IN {s \in [DOMAIN baseline -> [1..daysInMonth -> codes]] :
        \A e \in DOMAIN baseline : \A d \in 1..daysInMonth :
           s[e][d] = baseline[e][d] \/ s[e][d] \in validShiftsOf(emp(e), shiftTypes)}

\* evaluatePopulation: evaluate every chromosome, then sort ascending by fitness
evaluatePopulation(population, context) ==
  LET Evaluated(schedule, ev) ==
        [schedule |-> schedule, fitness |-> ev.fitness7, isValid |-> ev.isValid]
      evaluatedOne(schedule) ==
        Evaluated(schedule, evaluateFitness([schedule |-> schedule], context))
  IN StableSort([i \in 1..Len(population) |-> evaluatedOne(population[i])],
                LAMBDA a, b : a.fitness < b.fitness)

\* tournamentSelect for one outcome `picks` of the random draws (0-based indices)
tournamentSelect(population, picks) ==
  LET RECURSIVE reduce(_, _)
      reduce(best, k) ==
        IF k > Len(picks) THEN best
        ELSE LET curr == At(population, picks[k])
             IN reduce(IF curr.fitness < best.fitness THEN curr ELSE best, k + 1)
  IN reduce(At(population, picks[1]), 2)

\* every chromosome a tournament of the given size can return
TournamentOutcomes(population, tournamentSize) ==
  {tournamentSelect(population, picks) :
     picks \in [1..tournamentSize -> 0..(Len(population) - 1)]}

cloneChromosome(schedule) == [e \in DOMAIN schedule |-> [d \in DOMAIN schedule[e] |-> schedule[e][d]]]

\* employeeCrossover: each employee's row copied from one of the parents
employeeCrossover(parent1, parent2, employees) ==
  {child \in [DOMAIN parent1 -> {parent1[e] : e \in DOMAIN parent1} \cup {parent2[e] : e \in DOMAIN parent2}] :
     \A e \in DOMAIN parent1 : child[e] \in {parent1[e], parent2[e]}}

\* variant: the two drawn employees exchange their shifts whenever they differ
SwapDay_ignoreExclusions(schedule, employees, day) ==
  {schedule} \cup
  {[schedule EXCEPT ![employees[i].id][day] = schedule[employees[j].id][day],
                    ![employees[j].id][day] = schedule[employees[i].id][day]] :
     <<i, j>> \in {<<a, b>> \in (1..Len(employees)) \X (1..Len(employees)) :
                     /\ a # b
                     /\ schedule[employees[a].id][day] # schedule[employees[b].id][day]}}

\* swapMutation, one day: nothing, or the two drawn employees exchange their
\* shifts when they differ and neither shift is excluded for its receiver
SwapDay(schedule, employees, day) ==
  {schedule} \cup
  {[schedule EXCEPT ![employees[i].id][day] = schedule[employees[j].id][day],
                    ![employees[j].id][day] = schedule[employees[i].id][day]] :
     <<i, j>> \in {<<a, b>> \in (1..Len(employees)) \X (1..Len(employees)) :
                     /\ a # b
                     /\ schedule[employees[a].id][day] # schedule[employees[b].id][day]
                     /\ ~Includes(employees[a].excludedShifts, schedule[employees[b].id][day])
                     /\ ~Includes(employees[b].excludedShifts, schedule[employees[a].id][day])}}

RECURSIVE swapMutation(_, _, _, _)
swapMutation(schedules, employees, daysInMonth, day) ==
  IF day > daysInMonth THEN schedules
  ELSE swapMutation(UNION {SwapDay(s, employees, day) : s \in schedules}, employees, daysInMonth, day + 1)

\* the cells <<employee id, day>> of a schedule
CellsOf(schedule) == UNION {{<<e, d>> : d \in DOMAIN schedule[e]} : e \in DOMAIN schedule}

\* variant: a selected cell reverts or not whatever the adherence
guidedMutationWith_alwaysRandom(schedule, baselineShifts, selected, baselineAdherence) ==
  LET differing == {c \in selected : schedule[c[1]][c[2]] # baselineShifts[c[1]][c[2]]}
  IN {[e \in DOMAIN schedule |->
         [d \in DOMAIN schedule[e] |->
            IF <<e, d>> \in reverted THEN baselineShifts[e][d] ELSE schedule[e][d]]] :
        reverted \in SUBSET differing}

\* guidedMutation for one outcome `selected` of the per-cell draws against
\* mutationRate; baselineAdherence in hundredths. Math.random() is in [0, 1):
\* it is always below 1.0 and never below 0
guidedMutationWith(schedule, baselineShifts, selected, baselineAdherence) ==
  LET differing == {c \in selected : schedule[c[1]][c[2]] # baselineShifts[c[1]][c[2]]}
      reverts == IF baselineAdherence >= 100 THEN {differing}
                 ELSE IF baselineAdherence <= 0 THEN {{}}
                 ELSE SUBSET differing
  IN {[e \in DOMAIN schedule |->
         [d \in DOMAIN schedule[e] |->
            IF <<e, d>> \in reverted THEN baselineShifts[e][d] ELSE schedule[e][d]]] :
        reverted \in reverts}

\* guidedMutation with the default baselineAdherence 0.7: every cell that
\* differs from the baseline may revert to it
guidedMutation(schedule, baselineShifts) ==
  guidedMutationWith(schedule, baselineShifts, CellsOf(schedule), 70)

\* the children createOffspring(parent1, parent2, context, options) can
\* return; the mutation rate only weights the outcomes
createOffspring(parent1, parent2, context) ==
  UNION {guidedMutation(s, context.baselineShifts) :
           s \in swapMutation(employeeCrossover(parent1, parent2, context.employees),
                              context.employees, context.daysInMonth, 1)}

\* ========================================================================
\* State
\* ========================================================================
VARIABLES
  evPc,    \* evaluator probe: "off", "input", "fitness" (evaluateFitness ran), "schedule" (evaluateSchedule ran)
  evIn,    \* the probe's inputs
  evOut,   \* the probe's outputs
  wPc,     \* position of the worker's message handler and of the job it runs
  req,     \* e.data of the message being handled
  msgs,    \* messages posted by the worker (self.postMessage), oldest first
  now,     \* Date.now() - startTime
  cancelled,    \* the host called worker.terminate() from handleCancel
  population,       \* runGeneticAlgorithm: population (evaluated, sorted)
  newPopulation,    \* runGeneticAlgorithm: newPopulation (schedules being collected)
  gen,              \* runGeneticAlgorithm: gen
  bestFitness,      \* runGeneticAlgorithm: bestFitness
  bestChromosome,   \* runGeneticAlgorithm: bestChromosome
  best,             \* generateOptimalMatrix, generateOptimalMatricesJointly: best
  stagnationCount,  \* runGeneticAlgorithm: stagnationCount
  stoppedBy,        \* console.log('[GA] Terminated: ...'): why the loop was left
  lastOffspring,    \* the last offspring step: branch, parent, createOffspring's return value, inserted child
  result,           \* value returned by runGeneticAlgorithm, then by optimizeSchedule
  component,        \* the host component: "App" or "MatrixEditor" ("off": no host)
  workerRef,        \* host: workerRef.current, 0 for null, else the worker's number
  workers,          \* the workers the host created: "none", "running", "finished" (result posted), "terminated"
  inbox,            \* messages posted by workers and not yet dispatched to worker.onmessage
  superseded,       \* the workers terminated by a new job or by a cancel
  applied,          \* the last message worker.onmessage applied to host state
  timers,           \* pending setTimeout callbacks of handleSwitchToGreedy
  isGenerating,     \* host state isGenerating
  handled           \* the last host handler or worker step, with the messages terminate() discarded in it

evVars == <<evPc, evIn, evOut>>

gaVars == <<population, newPopulation, gen, bestFitness, bestChromosome, best, stagnationCount,
            stoppedBy, lastOffspring, result>>

wVars == <<wPc, req, msgs, now, cancelled>>

hostVars == <<component, workerRef, workers, inbox, superseded, applied, timers, isGenerating, handled>>

vars == <<evPc, evIn, evOut, wPc, req, msgs, now, cancelled, population, newPopulation, gen, bestFitness,
          bestChromosome, best, stagnationCount, stoppedBy, lastOffspring, result,
          component, workerRef, workers, inbox, superseded, applied, timers, isGenerating, handled>>

Undefined == "undefined"

\* a result without a schedule property
NoSchedule == [e \in {} |-> <<>>]

NoOut == [none |-> TRUE]

JobIdle ==
  /\ wPc = "idle"
  /\ req = NoOut
  /\ msgs = <<>>
  /\ now = 0
  /\ cancelled = FALSE
  /\ population = <<>>
  /\ newPopulation = <<>>
  /\ gen = 0
  /\ bestFitness = 0
  /\ bestChromosome = NoOut
  /\ best = NoOut
  /\ stagnationCount = 0
  /\ stoppedBy = Undefined
  /\ lastOffspring = NoOut
  /\ result = NoOut

MaxWorkers == 3

\* no worker created, nothing in flight
HostIdle ==
  /\ workerRef = 0
  /\ workers = [w \in 1..MaxWorkers |-> "none"]
  /\ inbox = <<>>
  /\ superseded = {}
  /\ applied = NoOut
  /\ timers = 0
  /\ isGenerating = FALSE
  /\ handled = [op |-> "none", discarded |-> 0]

InitJob ==
  /\ JobIdle
  /\ component = "off"
  /\ HostIdle

\* ========================================================================
\* Evaluator probes (pure functions applied to bounded inputs)
\* ========================================================================
EvalCodes == {M, N, R, M1}

EvalEmployees(c) ==
  << [id |-> "e1", contractHours |-> c,  excludedShifts |-> <<>>,  matrixId |-> "m1"],
     [id |-> "e2", contractHours |-> 36, excludedShifts |-> <<N>>, matrixId |-> "m1"] >>

RulesMixed ==
  << [id |-> "r1", shiftIds |-> <<M>>,    min |-> 1, enabled |-> TRUE],
     [id |-> "r2", shiftIds |-> <<N, R>>, min |-> 1, enabled |-> TRUE],
     [id |-> "r0", shiftIds |-> <<R>>,    min |-> 0, enabled |-> TRUE] >>

RulesTight == << [id |-> "r3", shiftIds |-> <<M>>, min |-> 2, enabled |-> TRUE] >>

RulesNone == << [id |-> "r0", shiftIds |-> <<R>>, min |-> 0, enabled |-> TRUE] >>

RuleSets == {RulesMixed, RulesTight}

NoWeights == [k \in {} |-> 0]

EvalBaselines ==
  { [e \in EmpIds |-> [d \in 1..DaysEval |-> IF d % 2 = 1 THEN M ELSE N]],
    [e \in EmpIds |-> [d \in 1..DaysEval |-> R]] }

EvalInputs ==
  [schedule : [EmpIds -> [1..DaysEval -> EvalCodes]],
   baseline : EvalBaselines,
   contract : {0, 20, 60},
   rules    : RuleSets,
   weights  : {NoWeights, [MATRIX_CHANGE |-> 5, HOURS_OVER |-> 2]}]

EvalContext(in) ==
  [employees |-> EvalEmployees(in.contract), shiftTypes |-> ShiftTypes, constraints |-> Constraints,
   coverageRules |-> in.rules, baselineShifts |-> in.baseline, daysInMonth |-> DaysEval,
   weights |-> in.weights]

InitEval ==
  /\ evPc = "input"
  /\ evIn \in EvalInputs
  /\ evOut = NoOut
  /\ InitJob

\* evaluateFitness(chromosome, context), together with the per-day and
\* per-employee partial results it is built from
ProbeFitness ==
  /\ evPc = "input"
  /\ evPc' = "fitness"
  /\ evOut' =
       LET ctx == EvalContext(evIn)
           w   == Spread(WEIGHTS, evIn.weights)
       IN [fit |-> evaluateFitness([schedule |-> evIn.schedule], ctx),
           cov |-> [d \in 0..(DaysEval - 1) |-> checkDayCoverage(evIn.schedule, d, evIn.rules)],
           hours |-> [i \in 1..2 |->
                        calculateHoursDeviation(evIn.schedule[ctx.employees[i].id], ctx.employees[i],
                                                ShiftTypes, DaysEval, w)]]
  /\ UNCHANGED <<hostVars, evIn, wVars, gaVars>>

\* evaluateSchedule({schedule, ...}) on the {emp -> {shifts}} form
ProbeSchedule ==
  /\ evPc = "input"
  /\ evPc' = "schedule"
  /\ evOut' = evaluateSchedule([e \in EmpIds |-> [shifts |-> evIn.schedule[e]]],
                               EvalEmployees(evIn.contract), ShiftTypes, Constraints,
                               evIn.rules, DaysEval)
  /\ UNCHANGED <<hostVars, evIn, wVars, gaVars>>

\* the self-contained evaluateFitness(chromosome, context) of ga/fitness.js
ProbeFitnessInline ==
  /\ evPc = "input"
  /\ evPc' = "fitnessInline"
  /\ evOut' = evaluateFitnessInline([schedule |-> evIn.schedule], EvalContext(evIn))
  /\ UNCHANGED <<hostVars, evIn, wVars, gaVars>>

NextEval == ProbeFitness \/ ProbeSchedule

SpecEval == InitEval /\ [][NextEval]_vars

\* the same probes and the self-contained evaluateFitness on inputs whose
\* weights option sets every key, zero included
InitEvalWeights ==
  /\ evPc = "input"
  /\ evIn \in [schedule : [EmpIds -> [1..DaysEval -> EvalCodes]],
                baseline : EvalBaselines,
                contract : {0, 60},
                rules    : RuleSets,
                weights  : {[k \in DOMAIN WEIGHTS |-> 0], [MATRIX_CHANGE |-> 5, HOURS_OVER |-> 2]}]
  /\ evOut = NoOut
  /\ InitJob

NextEvalWeights == ProbeFitness \/ ProbeSchedule \/ ProbeFitnessInline

SpecEvalWeights == InitEvalWeights /\ [][NextEvalWeights]_vars

\* ========================================================================
\* optimizerOptions: generateMonthlySchedule -> optimizeSchedule ->
\* solveWithGA -> runGeneticAlgorithm
\* ========================================================================
\* An option is <<>> when the key is missing (undefined) and <<v>> when it
\* holds v.  Rates are in hundredths.
Missing == <<>>

\* x = default in a destructuring pattern
OrDefault(x, default) == IF x = Missing THEN default ELSE x[1]

\* x || default
OrFallback(x, default) == IF x = Missing \/ x[1] = 0 THEN default ELSE x[1]

\* the optimizerOptions a caller of generateMonthlySchedule can supply, each
\* value inside its documented range
OptimizerOptions ==
  [useGA : {Missing, <<TRUE>>, <<FALSE>>},
   useCSP : {Missing, <<FALSE>>},
   greedyFallback : {Missing, <<TRUE>>, <<FALSE>>},
   populationSize : {Missing, <<10>>},
   maxGenerations : {Missing, <<50>>},
   stagnationLimit : {Missing, <<10>>},
   eliteCount : {Missing, <<0>>, <<3>>},
   mutationRate : {Missing, <<0>>, <<50>>},
   crossoverRate : {Missing, <<0>>, <<50>>},
   tournamentSize : {Missing, <<2>>}]

\* generateMonthlySchedule: the options object handed to optimizeSchedule
generateMonthlyScheduleOptions(optimizerOptions) ==
  [useGA |-> << optimizerOptions.useCSP # <<FALSE>> >>,
   greedyFallback |-> << optimizerOptions.greedyFallback = <<TRUE>> >>,
   gaPopulationSize |-> optimizerOptions.populationSize,
   gaMaxGenerations |-> optimizerOptions.maxGenerations,
   gaStagnationLimit |-> optimizerOptions.stagnationLimit,
   gaEliteCount |-> optimizerOptions.eliteCount,
   gaMutationRate |-> optimizerOptions.mutationRate]

\* optimizeSchedule: destructuring of options and the options of solveWithGA
optimizeScheduleOptions(options) ==
  [useGA |-> OrDefault(options.useGA, TRUE),
   greedyFallback |-> OrDefault(options.greedyFallback, TRUE),
   options |-> [populationSize |-> << OrDefault(options.gaPopulationSize, POPULATION_SIZE) >>,
                maxGenerations |-> << OrDefault(options.gaMaxGenerations, MAX_GENERATIONS) >>,
                stagnationLimit |-> << OrDefault(options.gaStagnationLimit, STAGNATION_LIMIT) >>,
                eliteCount |-> << OrDefault(options.gaEliteCount, ELITE_COUNT) >>,
                mutationRate |-> << OrDefault(options.gaMutationRate, MUTATION_RATE) >>]]

\* solveWithGA: gaOptions (no tournamentSize, no crossoverRate)
gaOptions(options) ==
  [populationSize |-> << OrFallback(options.populationSize, POPULATION_SIZE) >>,
   maxGenerations |-> << OrFallback(options.maxGenerations, MAX_GENERATIONS) >>,
   stagnationLimit |-> << OrFallback(options.stagnationLimit, STAGNATION_LIMIT) >>,
   eliteCount |-> << OrFallback(options.eliteCount, ELITE_COUNT) >>,
   mutationRate |-> << OrFallback(options.mutationRate, MUTATION_RATE) >>,
   tournamentSize |-> Missing,
   crossoverRate |-> Missing]

\* runGeneticAlgorithm: opts
normalizedOpts(options) ==
  [populationSize |-> OrFallback(options.populationSize, POPULATION_SIZE),
   maxGenerations |-> OrFallback(options.maxGenerations, MAX_GENERATIONS),
   tournamentSize |-> OrFallback(options.tournamentSize, TOURNAMENT_SIZE),
   crossoverRate |-> OrFallback(options.crossoverRate, CROSSOVER_RATE),
   mutationRate |-> OrFallback(options.mutationRate, MUTATION_RATE),
   eliteCount |-> OrFallback(options.eliteCount, ELITE_COUNT),
   stagnationLimit |-> OrFallback(options.stagnationLimit, STAGNATION_LIMIT)]

InitOptions ==
  /\ evPc = "options"
  /\ evIn \in OptimizerOptions
  /\ evOut = NoOut
  /\ InitJob

\* generateMonthlySchedule({..., optimizerOptions}) up to the first generation:
\* whether optimizeSchedule enters the GA branch, whether it may fall back,
\* and the opts runGeneticAlgorithm runs with
ProbeOptions ==
  /\ evPc = "options"
  /\ evPc' = "optimize"
  /\ \E optimized \in {optimizeScheduleOptions(generateMonthlyScheduleOptions(evIn))} :
       evOut' = [useGA |-> optimized.useGA,
                 greedyFallback |-> optimized.greedyFallback,
                 opts |-> normalizedOpts(gaOptions(optimized.options))]
  /\ UNCHANGED <<hostVars, evIn, wVars, gaVars>>

SpecOptions == InitOptions /\ [][ProbeOptions]_vars

\* C13: every recognised optimizerOptions key supplied with a value inside
\* its documented range is the value that governs the run, and with
\* useGA = false the GA branch is not entered.
C13_SuppliedOptionsGovern ==
  evPc = "optimize" =>
    /\ evIn.useGA # Missing => evOut.useGA = evIn.useGA[1]
    /\ evIn.greedyFallback # Missing => evOut.greedyFallback = evIn.greedyFallback[1]
    /\ \A k \in {"eliteCount", "mutationRate", "crossoverRate", "tournamentSize", "populationSize",
                  "maxGenerations", "stagnationLimit"} :
          evIn[k] # Missing => evOut.opts[k] = evIn[k][1]

\* ========================================================================
\* validateSequenceWithConstraints on one sequence and one must_follow
\* constraint
\* ========================================================================
SeqLen == 4

MustFollow(A, B) ==
  [id |-> "mf", type |-> "must_follow", shiftA |-> A, shiftB |-> B, shift |-> <<>>, days |-> 0,
   enabled |-> TRUE]

InitSequence ==
  /\ evPc = "sequence"
  /\ evIn \in [shifts : [1..SeqLen -> EvalCodes], shiftA : EvalCodes, shiftB : EvalCodes]
  /\ evOut = NoOut
  /\ InitJob

\* validateSequenceWithConstraints(shifts, [must_follow(A, B)], shiftTypes)
ProbeSequence ==
  /\ evPc = "sequence"
  /\ evPc' = "validated"
  /\ evOut' = validateSequenceWithConstraints(evIn.shifts, << MustFollow(evIn.shiftA, evIn.shiftB) >>,
                                              ShiftTypes)
  /\ UNCHANGED <<hostVars, evIn, wVars, gaVars>>

SpecSequence == InitSequence /\ [][ProbeSequence]_vars

\* shift equals id or starts with id followed by "_"
IsOrVariantOf(shift, id) ==
  \/ shift = id
  \/ /\ Len(shift) > Len(id)
     /\ \A k \in 1..Len(id) : shift[k] = id[k]
     /\ shift[Len(id) + 1] = "_"

\* number of reported violations whose day is i
ReportedAt(i) == Cardinality({k \in 1..Len(evOut) : evOut[k].day = i})

\* index i (0-based) holds A and is followed by a cell that does not hold B
BrokenAt(i) ==
  /\ i < SeqLen - 1
  /\ IsOrVariantOf(evIn.shifts[i + 1], evIn.shiftA)
  /\ ~IsOrVariantOf(evIn.shifts[i + 2], evIn.shiftB)

DeclaredPair == evIn.shiftA \in ShiftIdSet(ShiftTypes) /\ evIn.shiftB \in ShiftIdSet(ShiftTypes)

HistLen == 2

DaysGreedy == 3

GreedyEmployees(matrixOfE3) ==
  << [id |-> "e1", matrixId |-> "m1"], [id |-> "e2", matrixId |-> "m1"],
     [id |-> "e3", matrixId |-> matrixOfE3] >>

GreedyMatrices == [m1 |-> << <<M, N>>, <<R, M>> >>, m2 |-> << <<N, M, M>> >>]

\* history gives each employee the last HistLen shifts of the previous
\* month, or <<>> for an employee the previous month does not list
InitGreedy ==
  /\ evPc = "greedy"
  /\ evIn \in [history : [{"e1", "e2", "e3"} -> {<<>>} \cup [1..HistLen -> {M, N}]],
                matrixOfE3 : {"m1", "m2"},
                firstDay : {0, 1, 3}]
  /\ evOut = NoOut
  /\ InitJob

\* solveWithGreedy({year, month, employees, matrixMap, defaultMatrix,
\* previousMonthSchedule, daysInMonth}); firstDay is new Date(year, month, 1).getDay()
ProbeGreedy ==
  /\ evPc = "greedy"
  /\ evPc' = "assigned"
  /\ \E previousMonthSchedule \in {[id \in {e \in DOMAIN evIn.history : evIn.history[e] # <<>>} |->
                                      evIn.history[id]]} :
       evOut' = solveWithGreedyFrom(GreedyEmployees(evIn.matrixOfE3), GreedyMatrices, GreedyMatrices.m1,
                                    previousMonthSchedule, DaysGreedy, getFirstDayOfMonth(evIn.firstDay))
  /\ UNCHANGED <<hostVars, evIn, wVars, gaVars>>

SpecGreedy == InitGreedy /\ [][ProbeGreedy]_vars

\* ------------------------------------------------------------------------
\* Claims about the greedy baseline
\* ------------------------------------------------------------------------
GreedyIds == {"e1", "e2", "e3"}

\* the final assignment of an employee and the matrix the employee is bound to
AssignmentOf(id) ==
  evOut.assignments[CHOOSE k \in 1..Len(evOut.assignments) : evOut.assignments[k].employeeId = id]

MatrixIdOfEmp(id) == IF id = "e3" THEN evIn.matrixOfE3 ELSE "m1"

MatrixOfEmp(id) == GreedyMatrices[MatrixIdOfEmp(id)]

\* Monday-based weekday index of the first day of the month
MondayIndex == (evIn.firstDay + 6) % 7

PhaseShiftOf(id) == IF AssignmentOf(id).hasHistory THEN 0 ELSE MondayIndex

\* C17: an employee anchored at (row r, offset o) of an R x C matrix receives
\* on day d the snake cell at index (r*C + o + d + phaseShift) mod (R*C), where
\* phaseShift is the Monday-based weekday index of the first day of the month
\* when no history is used for the employee and 0 when history is used.
C17_SnakeUnravel ==
  evPc = "assigned" =>
    \A id \in GreedyIds : \A d \in 0..(DaysGreedy - 1) :
      evOut.schedule[id][d + 1] =
        At(Flatten(MatrixOfEmp(id)),
           (AssignmentOf(id).matrixRow * Len(MatrixOfEmp(id)[1]) + AssignmentOf(id).dayOffset + d
              + PhaseShiftOf(id)) % (Len(MatrixOfEmp(id)) * Len(MatrixOfEmp(id)[1])))

\* the month starts on a Sunday, one employee is unravelled from history and
\* another one of the same matrix from the calendar
C17_Witness ==
  /\ evPc = "assigned"
  /\ evIn.firstDay = 0
  /\ AssignmentOf("e1").hasHistory
  /\ ~AssignmentOf("e2").hasHistory
  /\ AssignmentOf("e2").matrixRow = 0
  /\ evOut.schedule["e2"] = <<R, M, M>>

\* index of the employee in the employee list of its matrix
GroupIndexOf(id) ==
  IF id = "e1" THEN 0 ELSE IF id = "e2" THEN 1 ELSE IF evIn.matrixOfE3 = "m1" THEN 2 ELSE 0

\* C18: an employee with no previous-month history is anchored at
\* (row = employee index mod R, offset = 0) and unravelled with the calendar
\* phase-shift, whether or not other employees have history.
C18_NoHistoryKeepsDefault ==
  evPc = "assigned" =>
    \A id \in GreedyIds :
      evIn.history[id] = <<>> =>
        /\ AssignmentOf(id).matrixRow = GroupIndexOf(id) % Len(MatrixOfEmp(id))
        /\ AssignmentOf(id).dayOffset = 0
        /\ ~AssignmentOf(id).hasHistory

\* the employees bound to a matrix and the final assignments of that group
GroupOf(matrixId) == {id \in GreedyIds : MatrixIdOfEmp(id) = matrixId}

RowLoad(matrixId, row) == Cardinality({id \in GroupOf(matrixId) : AssignmentOf(id).matrixRow = row})

\* Math.ceil(|employees| / R) of a matrix group
RowCapacity(matrixId) ==
  (Cardinality(GroupOf(matrixId)) + Len(GreedyMatrices[matrixId]) - 1) \div Len(GreedyMatrices[matrixId])

HistorySupplied == \E id \in GreedyIds : evIn.history[id] # <<>>

\* C19: in the assignment returned by findOptimalMatrixAssignment for a
\* matrix with R rows when previous-month history is supplied, no matrix row
\* is assigned to more than ceil(|employees| / R) employees.
C19_RowCapacityRespected ==
  evPc = "assigned" /\ HistorySupplied =>
    \A matrixId \in {"m1", "m2"} : \A row \in 0..(Len(GreedyMatrices[matrixId]) - 1) :
      RowLoad(matrixId, row) <= RowCapacity(matrixId)

\* votes of a phase in the global vote: the employees with non-empty history
\* whose raw continuity score is at least 0.4 and whose targetNextOffset is it
GlobalVotes(phase) ==
  Cardinality({id \in GreedyIds :
                 /\ evIn.history[id] # <<>>
                 /\ 5 * AssignmentOf(id).rawScore.num >= 2 * AssignmentOf(id).rawScore.den
                 /\ AssignmentOf(id).targetNextOffset = phase})

\* C20: when a dominant phase wins the global vote (at least 2 votes, tallied
\* across all matrices), every employee with non-empty history, in every
\* matrix, ends with dayOffset equal to that phase and is unravelled with
\* phaseShift 0.
C20_DominantPhaseAligns ==
  evPc = "assigned" =>
    \A phase \in 0..2 :
      GlobalVotes(phase) >= 2 =>
        \A id \in GreedyIds :
          evIn.history[id] # <<>> =>
            /\ AssignmentOf(id).dayOffset = phase
            /\ \A d \in 0..(DaysGreedy - 1) :
                 evOut.schedule[id][d + 1] =
                   At(Flatten(MatrixOfEmp(id)),
                      (AssignmentOf(id).matrixRow * Len(MatrixOfEmp(id)[1]) + phase + d)
                         % (Len(MatrixOfEmp(id)) * Len(MatrixOfEmp(id)[1])))

\* e1 and e2 vote phase 1 on the 2x2 matrix; e3, on the other matrix, has a
\* history that projects to another offset and is re-aligned to phase 1 in a
\* month that does not start on a Monday
C20_Witness ==
  /\ evPc = "assigned"
  /\ evIn.matrixOfE3 = "m2"
  /\ evIn.firstDay = 3
  /\ GlobalVotes(1) = 2
  /\ evIn.history["e3"] # <<>>
  /\ AssignmentOf("e3").targetNextOffset # 1
  /\ AssignmentOf("e3").dayOffset = 1
  /\ AssignmentOf("e3").hasHistory

\* ------------------------------------------------------------------------
\* Claims about the evaluator
\* ------------------------------------------------------------------------
SeqToSet(s) == {s[i] : i \in 1..Len(s)}

\* employees whose day-d cell is literally one of the rule's shift ids
ExactCount(d, rule) ==
  Cardinality({e \in EmpIds : At(evIn.schedule[e], d) \in SeqToSet(rule.shiftIds)})

\* employees whose day-d cell is one of the rule's shift ids or a variant id_suffix of one
BaseCount(d, rule) ==
  Cardinality({e \in EmpIds : \E id \in SeqToSet(rule.shiftIds) :
                 At(evIn.schedule[e], d) = id \/ StartsWith(At(evIn.schedule[e], d), id \o <<"_">>)})

ActiveRules == {evIn.rules[k] : k \in {j \in 1..Len(evIn.rules) : evIn.rules[j].min >= 1}}

\* sum over the rules with min >= 1 of |min - count| on day d
ExpectedDayDeviation(d) ==
  SeqSum([k \in 1..Len(evIn.rules) |->
            IF evIn.rules[k].min >= 1 THEN Abs(evIn.rules[k].min - ExactCount(d, evIn.rules[k])) ELSE 0])

ExcludedCells ==
  LET emps == EvalEmployees(evIn.contract)
  IN {<<i, d>> \in (1..Len(emps)) \X (1..DaysEval) :
        evIn.schedule[emps[i].id][d] \in SeqToSet(emps[i].excludedShifts)}

HoursPenalty7(i) ==
  LET D7 == 7 * evOut.hours[i].worked - EvalEmployees(evIn.contract)[i].contractHours * DaysEval
  IN IF D7 < 0 THEN 15 * (-D7) ELSE 8 * D7

C11_ValidIffNoViolations ==
  /\ evPc = "fitness" =>
       (evOut.fit.isValid <=> /\ evOut.fit.components.constraintViolations = 0
                              /\ evOut.fit.components.coverageViolations = 0
                              /\ Cardinality(ExcludedCells) = 0)
  /\ evPc = "fitnessInline" =>
       (evOut.isValid <=> /\ evOut.components.constraintViolations = 0
                          /\ evOut.components.coverageViolations = 0
                          /\ Cardinality(ExcludedCells) = 0)
  /\ evPc = "schedule" =>
       (evOut.summary.isValid <=> /\ evOut.summary.constraintViolations = 0
                                  /\ evOut.summary.coverageViolations = 0
                                  /\ evOut.summary.exclusionViolations = 0
                                  /\ Cardinality(ExcludedCells) = 0)

\* the weight in force for key k: the supplied value when the key is supplied
SuppliedWeight(k) == IF k \in DOMAIN evIn.weights THEN evIn.weights[k] ELSE WEIGHTS[k]

\* 7 * (worked - expected) of employee i
Deviation7(i) ==
  calculateHoursDeviation(evIn.schedule[EvalEmployees(evIn.contract)[i].id],
                          EvalEmployees(evIn.contract)[i], ShiftTypes, DaysEval, WEIGHTS).deviation7

SuppliedHoursPenalty7(i) ==
  IF Deviation7(i) < 0 THEN SuppliedWeight("HOURS_UNDER") * (-Deviation7(i))
                       ELSE SuppliedWeight("HOURS_OVER") * Deviation7(i)

\* C12: each of the six weight keys supplied in the weights option, the
\* value 0 included, is the value the evaluation uses in place of the
\* default: the fitness is the sum of the counts times the supplied weights.
C12_SuppliedWeightsUsed ==
  /\ evPc = "fitnessInline" =>
       evOut.fitness7 =
         7 * (evOut.components.constraintViolations * SuppliedWeight("CONSTRAINT_VIOLATION")
              + evOut.components.coverageViolations * SuppliedWeight("COVERAGE_VIOLATION")
              + evOut.components.matrixDeviations * SuppliedWeight("MATRIX_CHANGE"))
         + SuppliedHoursPenalty7(1) + SuppliedHoursPenalty7(2)
  /\ evPc = "fitness" =>
       evOut.fit.fitness7 =
         7 * (evOut.fit.components.constraintViolations * SuppliedWeight("CONSTRAINT_VIOLATION")
              + evOut.fit.components.coverageViolations * SuppliedWeight("COVERAGE_VIOLATION")
              + evOut.fit.components.exclusionViolations * SuppliedWeight("EXCLUSION_VIOLATION")
              + evOut.fit.components.matrixDeviations * SuppliedWeight("MATRIX_CHANGE"))
         + SuppliedHoursPenalty7(1) + SuppliedHoursPenalty7(2)

\* the declared shift types that the code is, or is a variant id_suffix of
BaseTypes(shift) == {k \in 1..Len(ShiftTypes) : IsOrVariantOf(shift, ShiftTypes[k].id)}

\* hours of the shift type a code stands for
BaseHours(shift) == IF BaseTypes(shift) = {} THEN 0 ELSE ShiftTypes[CHOOSE k \in BaseTypes(shift) : TRUE].hours

\* C16: a variant code id_suffix counts as shift id wherever shift identity
\* is tested: in the worked hours, in the coverage count, in the
\* matrix-deviation count and in the exclusion count of an evaluation.
C16_VariantIsBaseShift ==
  evPc = "fitness" =>
    /\ \A i \in 1..2 :
         evOut.hours[i].worked =
           SeqSum([d \in 1..DaysEval |-> BaseHours(evIn.schedule[EvalEmployees(evIn.contract)[i].id][d])])
    /\ \A d \in 0..(DaysEval - 1) :
         evOut.cov[d].violations =
           SeqSum([k \in 1..Len(evIn.rules) |->
                     IF evIn.rules[k].min >= 1
                       THEN Abs(evIn.rules[k].min - BaseCount(d, evIn.rules[k])) ELSE 0])
    /\ evOut.fit.components.matrixDeviations =
         Cardinality({<<e, d>> \in EmpIds \X (1..DaysEval) :
                        BaseTypes(evIn.schedule[e][d]) # BaseTypes(evIn.baseline[e][d])})
    /\ evOut.fit.components.exclusionViolations =
         Cardinality({<<i, d>> \in (1..2) \X (1..DaysEval) :
                        \E x \in SeqToSet(EvalEmployees(evIn.contract)[i].excludedShifts) :
                           IsOrVariantOf(evIn.schedule[EvalEmployees(evIn.contract)[i].id][d], x)})

\* ========================================================================
\* The GENERATE job: optimizeSchedule -> solveWithGA -> runGeneticAlgorithm
\* ========================================================================
\* Bounds of the job scenarios
DaysGA    == 2   \* daysInMonth
PopSize   == 2   \* options.populationSize
MaxGen    == 3   \* options.maxGenerations
StagLimit == 2   \* options.stagnationLimit
TimeoutMs == 1   \* options.gaTimeoutMs, in clock ticks
MaxClock  == 2   \* clock ticks observed

\* Bounds of the matrix job scenarios
PopSizeM   == 2    \* options.POPULATION_SIZE
MaxGenM    == 10   \* options.MAX_GENERATIONS
StagLimitM == 7    \* options.STAGNATION_LIMIT
TimeoutMsM == 0    \* options.TIMEOUT_MS, in clock ticks
MaxClockM  == 1    \* clock ticks observed during a matrix job

\* Scenarios: "mixed" has a valid baseline that the GA can improve, "tight"
\* has a coverage rule no schedule satisfies together with the constraints,
\* "rest" has a baseline of fitness 0, "empty" has a matrix without rows,
\* "unknown" is "rest" with a coverage rule on a shift id that is not declared.
Scenarios == {"mixed", "tight", "rest", "empty", "unknown"}

ScnEmployees(scn) ==
  IF scn \in {"rest", "unknown"}
    THEN << [id |-> "e1", contractHours |-> 0, excludedShifts |-> <<>>,  matrixId |-> "m1"],
            [id |-> "e2", contractHours |-> 0, excludedShifts |-> <<N>>, matrixId |-> "m1"] >>
    ELSE EvalEmployees(20)

ScnMatrix(scn) ==
  CASE scn \in {"rest", "unknown"} -> << <<R, R>> >>
    [] scn = "empty" -> << >>
    [] OTHER         -> << <<M, N>>, <<R, M>> >>

ScnRules(scn) ==
  CASE scn = "rest"  -> RulesNone
    [] scn = "unknown" -> << [id |-> "r9", shiftIds |-> << <<"X">> >>, min |-> 1, enabled |-> TRUE] >>
    [] scn = "tight" -> RulesTight
    [] OTHER         -> RulesMixed

GenerateRequests ==
  [type : {"GENERATE"}, scenario : Scenarios, useGA : BOOLEAN, greedyFallback : BOOLEAN,
   eliteCount : {0, 1}]

\* findOptimalMatrixAssignment reads matrix[0].length
GreedyThrows(r) == Len(ScnMatrix(r.scenario)) = 0

Baseline(r) == solveWithGreedy(ScnEmployees(r.scenario), ScnMatrix(r.scenario), DaysGA, 0)

\* runGeneticAlgorithm: opts (options.x || DEFAULT_SCHEDULE_GA_CONFIG.X)
Opts(r) ==
  [populationSize  |-> OrElse(PopSize, POPULATION_SIZE),
   maxGenerations  |-> OrElse(MaxGen, MAX_GENERATIONS),
   tournamentSize  |-> OrElse(0, TOURNAMENT_SIZE),
   eliteCount      |-> OrElse(r.eliteCount, ELITE_COUNT),
   stagnationLimit |-> OrElse(StagLimit, STAGNATION_LIMIT),
   targetFitness   |-> OrElse(0, TARGET_FITNESS),
   timeoutMs       |-> OrElse(TimeoutMs, TIMEOUT_MS)]

\* runGeneticAlgorithm: context
Context(r) ==
  [employees |-> ScnEmployees(r.scenario), shiftTypes |-> ShiftTypes, constraints |-> Constraints,
   coverageRules |-> ScnRules(r.scenario), baselineShifts |-> Baseline(r), daysInMonth |-> DaysGA,
   weights |-> NoWeights]

\* solveWithGreedy's result as optimizeSchedule returns it
GreedyResult(r, gaFailed) ==
  [success |-> TRUE, reason |-> Undefined, method |-> "greedy",
   schedule |-> [e \in DOMAIN Baseline(r) |-> [shifts |-> Baseline(r)[e], source |-> "greedy"]],
   gaFailed |-> gaFailed, gaReason |-> IF gaFailed THEN "fallback" ELSE Undefined]

\* payload of a progress event
ProgressEvent(generation, incumbent, complete) ==
  [type |-> "PROGRESS", generation |-> generation, bestFitness |-> incumbent, complete |-> complete]

Running == wPc \in {"init", "boundary", "breed", "final", "gaReturned", "optimized", "mLoop", "mReturned"}

\* self.onmessage, type GENERATE, up to the first individual of initializePopulation
ReceiveGenerate ==
  /\ wPc = "idle"
  /\ \E r \in GenerateRequests :
       /\ req' = r
       /\ IF GreedyThrows(r)
            THEN \* solveWithGA catches and reports reason 'error'; the fallback call throws again
                 IF r.useGA /\ ~r.greedyFallback
                   THEN /\ result' = [success |-> FALSE, reason |-> "error", method |-> "ga",
                                      schedule |-> NoSchedule, gaFailed |-> Undefined, gaReason |-> Undefined]
                        /\ wPc' = "optimized"
                        /\ msgs' = msgs
                        /\ UNCHANGED newPopulation
                   ELSE /\ msgs' = Append(msgs, [type |-> "ERROR"])
                        /\ wPc' = "done"
                        /\ UNCHANGED <<result, newPopulation>>
            ELSE IF r.useGA
              THEN /\ newPopulation' = << cloneChromosome(Baseline(r)) >>
                   /\ wPc' = "init"
                   /\ UNCHANGED <<result, msgs>>
              ELSE /\ result' = GreedyResult(r, FALSE)
                   /\ wPc' = "optimized"
                   /\ UNCHANGED <<newPopulation, msgs>>
  /\ UNCHANGED <<hostVars, evVars, now, cancelled, population, gen, bestFitness, bestChromosome, best,
                 stagnationCount, stoppedBy, lastOffspring>>

\* initializePopulation: one more perturbed individual
InitIndividual ==
  /\ wPc = "init"
  /\ Len(newPopulation) < Opts(req).populationSize
  /\ \E s \in PerturbedSchedules(Baseline(req), ScnEmployees(req.scenario), ShiftTypes, DaysGA) :
       newPopulation' = Append(newPopulation, s)
  /\ UNCHANGED <<hostVars, evVars, wVars, population, gen, bestFitness, bestChromosome, best, stagnationCount,
                 stoppedBy, lastOffspring, result>>

\* variant: the first incumbent is the last individual of the sorted population
InitEvaluate_lastIndividual ==
  /\ wPc = "init"
  /\ Len(newPopulation) >= Opts(req).populationSize
  /\ \E context \in {Context(req)} : \E pop \in {evaluatePopulation(newPopulation, context)} :
       /\ population' = pop
       /\ bestFitness' = pop[Len(pop)].fitness
       /\ bestChromosome' = [schedule |-> cloneChromosome(pop[Len(pop)].schedule),
                             isValid |-> pop[Len(pop)].isValid]
  /\ stagnationCount' = 0
  /\ gen' = 0
  /\ newPopulation' = <<>>
  /\ wPc' = "boundary"
  /\ UNCHANGED <<hostVars, evVars, req, msgs, now, cancelled, best, stoppedBy, lastOffspring, result>>

\* evaluatePopulation of the initial population and the first incumbent
InitEvaluate ==
  /\ wPc = "init"
  /\ Len(newPopulation) >= Opts(req).populationSize
  /\ \E context \in {Context(req)} : \E pop \in {evaluatePopulation(newPopulation, context)} :
       /\ population' = pop
       /\ bestFitness' = pop[1].fitness
       /\ bestChromosome' = [schedule |-> cloneChromosome(pop[1].schedule), isValid |-> pop[1].isValid]
  /\ stagnationCount' = 0
  /\ gen' = 0
  /\ newPopulation' = <<>>
  /\ wPc' = "boundary"
  /\ UNCHANGED <<hostVars, evVars, req, msgs, now, cancelled, best, stoppedBy, lastOffspring, result>>

\* Date.now() advances; the loop reads it at the generation boundary only
Tick ==
  /\ wPc \in {"boundary", "mLoop"}
  /\ now < (IF wPc = "mLoop" THEN MaxClockM ELSE MaxClock)
  /\ now' = now + 1
  /\ UNCHANGED <<hostVars, evVars, wPc, req, msgs, cancelled, gaVars>>

\* why the loop is left at this boundary, Undefined when it goes on
\* (the for condition, then the three checks in the order of the code)
\* variant: the stagnation check left out
StopCondition_noStagnation(g, elapsed, stagnation, incumbent, opts) ==
  CASE ~(g < opts.maxGenerations)           -> "generations"
    [] elapsed > opts.timeoutMs             -> "timeout"
    [] incumbent <= opts.targetFitness           -> "target"
    [] OTHER                                -> Undefined

StopCondition(g, elapsed, stagnation, incumbent, opts) ==
  CASE ~(g < opts.maxGenerations)           -> "generations"
    [] elapsed > opts.timeoutMs             -> "timeout"
    [] stagnation >= opts.stagnationLimit   -> "stagnation"
    [] incumbent <= opts.targetFitness           -> "target"
    [] OTHER                                -> Undefined

\* elitism: clones of the first eliteCount individuals
Elites(pop, eliteCount) ==
  [i \in 1..Min2(eliteCount, Len(pop)) |-> cloneChromosome(pop[i].schedule)]

\* head of the evolution loop
GABoundary ==
  /\ wPc = "boundary"
  /\ LET stop == StopCondition(gen, now, stagnationCount, bestFitness, Opts(req))
     IN IF stop # Undefined
          THEN /\ stoppedBy' = stop
               /\ wPc' = "final"
               /\ UNCHANGED newPopulation
          ELSE /\ newPopulation' = Elites(population, Opts(req).eliteCount)
               /\ wPc' = "breed"
               /\ UNCHANGED stoppedBy
  /\ UNCHANGED <<hostVars, evVars, req, msgs, now, cancelled, population, gen, bestFitness, bestChromosome, best,
                 stagnationCount, lastOffspring, result>>

\* offspring, Math.random() < crossoverRate
GAOffspringCrossover ==
  /\ wPc = "breed"
  /\ Len(newPopulation) < Opts(req).populationSize
  /\ \E parent1 \in TournamentOutcomes(population, Opts(req).tournamentSize) :
     \E parent2 \in TournamentOutcomes(population, Opts(req).tournamentSize) :
     \E child \in createOffspring(parent1.schedule, parent2.schedule, Context(req)) :
       /\ newPopulation' = Append(newPopulation, child)
       /\ lastOffspring' = [branch |-> "crossover", returned |-> child, inserted |-> child]
  /\ UNCHANGED <<hostVars, evVars, wVars, population, gen, bestFitness, bestChromosome, best, stagnationCount,
                 stoppedBy, result>>

\* offspring, otherwise: createOffspring(child, child, ...) builds and mutates
\* its own copy and its return value is dropped; child is pushed
GAOffspringClone ==
  /\ wPc = "breed"
  /\ Len(newPopulation) < Opts(req).populationSize
  /\ \E parent \in TournamentOutcomes(population, Opts(req).tournamentSize) :
       LET child == cloneChromosome(parent.schedule)
       IN \E mutated \in createOffspring(child, child, Context(req)) :
            /\ newPopulation' = Append(newPopulation, child)
            /\ lastOffspring' = [branch |-> "clone", returned |-> mutated, inserted |-> child]
  /\ UNCHANGED <<hostVars, evVars, wVars, population, gen, bestFitness, bestChromosome, best, stagnationCount,
                 stoppedBy, result>>

\* "Track improvement": the incumbent and the stagnation counter after a generation
\* variant: the best fitness is updated, the best chromosome is not
TrackImprovement_fitnessOnly(pop, incumbent, chromosome, stagnation) ==
  IF pop[1].fitness < incumbent
    THEN [bestFitness |-> pop[1].fitness, bestChromosome |-> chromosome, stagnationCount |-> 0]
    ELSE [bestFitness |-> incumbent, bestChromosome |-> chromosome, stagnationCount |-> stagnation + 1]

TrackImprovement(pop, incumbent, chromosome, stagnation) ==
  IF pop[1].fitness < incumbent
    THEN [bestFitness |-> pop[1].fitness,
          bestChromosome |-> [schedule |-> cloneChromosome(pop[1].schedule), isValid |-> pop[1].isValid],
          stagnationCount |-> 0]
    ELSE [bestFitness |-> incumbent, bestChromosome |-> chromosome, stagnationCount |-> stagnation + 1]

\* end of a generation: evaluate, track improvement, report progress
GAEvaluate ==
  /\ wPc = "breed"
  /\ Len(newPopulation) >= Opts(req).populationSize
  /\ \E context \in {Context(req)} : \E pop \in {evaluatePopulation(newPopulation, context)} :
       LET t == TrackImprovement(pop, bestFitness, bestChromosome, stagnationCount)
       IN /\ population' = pop
          /\ bestFitness' = t.bestFitness
          /\ bestChromosome' = t.bestChromosome
          /\ stagnationCount' = t.stagnationCount
          /\ msgs' = IF gen % 5 = 0
                       THEN Append(msgs, ProgressEvent(gen, t.bestFitness, FALSE))
                       ELSE msgs
  /\ gen' = gen + 1
  /\ newPopulation' = <<>>
  /\ lastOffspring' = NoOut
  /\ wPc' = "boundary"
  /\ UNCHANGED <<hostVars, evVars, req, now, cancelled, best, stoppedBy, result>>

\* runGeneticAlgorithm's return value
GAResult(chromosome, incumbent, stagnation, opts) ==
  [success |-> TRUE, schedule |-> chromosome.schedule, fitness |-> incumbent,
   isValid |-> chromosome.isValid,
   generations |-> Min2(opts.maxGenerations,
                        IF stagnation > 0
                          THEN opts.maxGenerations - opts.stagnationLimit + stagnation
                          ELSE opts.maxGenerations),
   method |-> "ga"]

\* after the loop: final progress report and return
GAFinish ==
  /\ wPc = "final"
  /\ msgs' = Append(msgs, ProgressEvent(Opts(req).maxGenerations, bestFitness, TRUE))
  /\ result' = GAResult(bestChromosome, bestFitness, stagnationCount, Opts(req))
  /\ wPc' = "gaReturned"
  /\ UNCHANGED <<hostVars, evVars, req, now, cancelled, population, newPopulation, gen, bestFitness,
                 bestChromosome, best, stagnationCount, stoppedBy, lastOffspring>>

\* solveWithGA after runGeneticAlgorithm returned
solveWithGA(gaResult, employees) ==
  LET shiftsOf(source) ==
        [e \in {employees[i].id : i \in 1..Len(employees)} \cap DOMAIN gaResult.schedule |->
           [shifts |-> gaResult.schedule[e], source |-> source]]
  IN IF ~gaResult.isValid
       THEN [success |-> FALSE, reason |-> "constraints_violated", method |-> "ga",
             schedule |-> shiftsOf("ga-failed"), gaFailed |-> Undefined, gaReason |-> Undefined]
       ELSE [success |-> TRUE, reason |-> Undefined, method |-> "ga",
             schedule |-> shiftsOf("ga"), gaFailed |-> Undefined, gaReason |-> Undefined]

\* optimizeSchedule after solveWithGA returned
\* variant: the GA result is returned whatever greedyFallback says
optimizeSchedule_neverFallback(gaResult, r) ==
  gaResult

optimizeSchedule(gaResult, r) ==
  IF gaResult.success THEN gaResult
  ELSE IF ~r.greedyFallback THEN gaResult
  ELSE GreedyResult(r, r.useGA)

OptimizeReturn ==
  /\ wPc = "gaReturned"
  /\ result' = optimizeSchedule(solveWithGA(result, ScnEmployees(req.scenario)), req)
  /\ wPc' = "optimized"
  /\ UNCHANGED <<hostVars, evVars, req, msgs, now, cancelled, population, newPopulation, gen, bestFitness,
                 bestChromosome, best, stagnationCount, stoppedBy, lastOffspring>>

\* generateMonthlySchedule's result for an optimizer result
generateMonthlySchedule(optimizerResult) ==
  IF ~optimizerResult.success
    THEN LET bestEffortSchedule ==
               [e \in DOMAIN optimizerResult.schedule |-> optimizerResult.schedule[e].shifts]
         IN [schedule |-> bestEffortSchedule, method |-> optimizerResult.method,
             reason |-> optimizerResult.reason, failed |-> TRUE,
             hasBestEffortSchedule |-> DOMAIN bestEffortSchedule # {}]
    ELSE [schedule |-> [e \in DOMAIN optimizerResult.schedule |-> optimizerResult.schedule[e].shifts],
          method |-> optimizerResult.method, reason |-> Undefined, failed |-> FALSE,
          hasBestEffortSchedule |-> FALSE]

\* the job returned: postMessage SUCCESS
\* variant: a progress report follows the SUCCESS message
PostSuccess_thenProgress ==
  /\ wPc = "optimized"
  /\ msgs' = msgs \o << [type |-> "SUCCESS", payload |-> generateMonthlySchedule(result)],
                         ProgressEvent(gen, bestFitness, TRUE) >>
  /\ wPc' = "done"
  /\ UNCHANGED <<hostVars, evVars, req, now, cancelled, gaVars>>

PostSuccess ==
  /\ wPc = "optimized"
  /\ msgs' = Append(msgs, [type |-> "SUCCESS", payload |-> generateMonthlySchedule(result)])
  /\ wPc' = "done"
  /\ UNCHANGED <<hostVars, evVars, req, now, cancelled, gaVars>>

\* ========================================================================
\* evaluator.js, matrix generator: the GENERATE_MATRIX and
\* GENERATE_ALL_MATRICES jobs
\* ========================================================================
\* MUTATION_RATE in thousandths
DEFAULT_GA_CONFIG ==
  [POPULATION_SIZE |-> 1000, MAX_GENERATIONS |-> 50000, ELITE_COUNT |-> 50,
   MUTATION_RATE |-> 80, TIMEOUT_MS |-> 3000000, STAGNATION_LIMIT |-> 1000]

\* a matrix is a sequence of rows; r and c count from 0 as in the source
Cell(matrix, r, c) == matrix[r + 1][c + 1]

SetCell(matrix, r, c, v) == [matrix EXCEPT ![r + 1][c + 1] = v]

Ids(shiftTypes) == [i \in 1..Len(shiftTypes) |-> shiftTypes[i].id]

IdSet(ids) == {ids[i] : i \in 1..Len(ids)}

Perms(n) == {p \in [1..n -> 1..n] : \A i, j \in 1..n : p[i] = p[j] => i = j}

\* the functions on dom that take a value of choice(x) at every x
Choices(dom, choice(_)) ==
  {f \in [dom -> UNION {choice(x) : x \in dom}] : \A x \in dom : f[x] \in choice(x)}

getAllowedShifts(employees, matrixId, shiftTypes, isDefaultMatrix) ==
  LET matrixEmployees ==
        SelectSeq(employees, LAMBDA e : e.matrixId = matrixId \/ (e.matrixId = "" /\ isDefaultMatrix))
  IN SelectSeq(Ids(shiftTypes),
               LAMBDA id : ~\E i \in 1..Len(matrixEmployees) :
                               Includes(matrixEmployees[i].excludedShifts, id))

getNextPosition(r, c, rows, cols) ==
  IF c + 1 >= cols
    THEN (IF r + 1 >= rows THEN <<0, 0>> ELSE <<r + 1, 0>>)
    ELSE <<r, c + 1>>

\* every outcome of the picks rule.shiftIds[random] for the missing counts
RECURSIVE NeededShifts(_, _)
NeededShifts(rules, missing) ==
  IF rules = <<>> THEN { <<>> }
  ELSE LET rule == Head(rules)
           k == IF rule.enabled THEN missing[rule.id] ELSE 0
       IN {p \o rest : p \in [1..k -> IdSet(rule.shiftIds)],
                       rest \in NeededShifts(Tail(rules), missing)}

\* "Fill needed shifts": each goes to the first free slot that takes it
RECURSIVE FillNeeded(_, _, _, _)
FillNeeded(needed, slots, assignedIndices, col) ==
  IF needed = <<>> THEN col
  ELSE LET shiftId == Head(needed)
           free == {idx \in 1..Len(slots) :
                      /\ idx \notin assignedIndices
                      /\ ~Includes(slots[idx].excluded, shiftId)
                      /\ shiftId \in slots[idx].accepts}
       IN IF free = {}
            THEN FillNeeded(Tail(needed), slots, assignedIndices, col)
            ELSE LET slotIndex == CHOOSE i \in free : \A k \in free : i <= k
                 IN FillNeeded(Tail(needed), slots, assignedIndices \cup {slotIndex},
                               [col EXCEPT ![slotIndex] = shiftId])

\* one column of a smart individual: slots shuffled, needed shifts placed,
\* the rest filled at random; the result is indexed like slots
SmartColumn(slots, neededSet) ==
  LET n == Len(slots)
      outcome(needed, perm) ==
        LET shuffled == [i \in 1..n |-> slots[perm[i]]]
            col == FillNeeded(needed, shuffled, {}, [i \in 1..n |-> <<>>])
            filled == Choices(1..n, LAMBDA i : IF col[i] # <<>> THEN {col[i]} ELSE shuffled[i].fill)
        IN {[k \in 1..n |-> f[CHOOSE i \in 1..n : perm[i] = k]] : f \in filled}
  IN UNION {outcome(needed, perm) : needed \in neededSet, perm \in Perms(n)}

\* validForSlot, or the fallback when no allowed shift is left
FillChoices(allowedIds, excluded, fallback) ==
  LET validForSlot == {id \in IdSet(allowedIds) : ~Includes(excluded, id)}
  IN IF validForSlot # {} THEN validForSlot ELSE {fallback}

createSmartIndividual(rows, cols, allowedShiftTypes, context) ==
  LET targetMatrixEmps ==
        SelectSeq(context.employees, LAMBDA e : e.matrixId = context.targetMatrixId)
      otherMatrices ==
        SelectSeq(context.allMatrices, LAMBDA m : m.id # context.targetMatrixId)
      ruleIds == UNION {IdSet(context.coverageRules[i].shiftIds) : i \in 1..Len(context.coverageRules)}
      allowedIds == Ids(allowedShiftTypes)
      excludedOf(r) == IF r <= Len(targetMatrixEmps) THEN targetMatrixEmps[r].excludedShifts ELSE <<>>
      slots == [r \in 1..rows |->
                  [excluded |-> excludedOf(r), accepts |-> ruleIds,
                   fill |-> FillChoices(allowedIds, excludedOf(r), Head(allowedIds))]]
      currentCoverage(c, shift) ==
        SeqSum([k \in 1..Len(otherMatrices) |->
                  Cardinality({i \in 1..Len(otherMatrices[k].rows) :
                                 c <= Len(otherMatrices[k].rows[i]) /\ otherMatrices[k].rows[i][c] = shift})])
      missing(c) ==
        [id \in {context.coverageRules[i].id : i \in 1..Len(context.coverageRules)} |->
           LET rule == context.coverageRules[CHOOSE i \in 1..Len(context.coverageRules) :
                                               context.coverageRules[i].id = id]
               count == SeqSum([k \in 1..Len(rule.shiftIds) |-> currentCoverage(c, rule.shiftIds[k])])
           IN IF rule.min - count > 0 THEN rule.min - count ELSE 0]
      column(c) == SmartColumn(slots, NeededShifts(context.coverageRules, missing(c)))
      columns == Choices(1..cols, column)
  IN {[r \in 1..rows |-> [c \in 1..cols |-> cs[c][r]]] : cs \in columns}

\* shifts of every employee from the row of the matrix of their group
solveWithGreedyMatrices(employees, matrixMap, defaultMatrix, daysInMonth, dayOfWeekOffset) ==
  LET matrixOf(id) == IF id \in DOMAIN matrixMap THEN matrixMap[id] ELSE defaultMatrix
      group(id) == SelectSeq(employees, LAMBDA e : e.matrixId = id)
  IN [e \in {employees[i].id : i \in 1..Len(employees)} |->
        LET emp == employees[CHOOSE i \in 1..Len(employees) : employees[i].id = e]
        IN solveWithGreedy(group(emp.matrixId), matrixOf(emp.matrixId), daysInMonth,
                           dayOfWeekOffset)[e]]

\* errors.length of the snake extended by one row length
SnakeErrors(matrix, constraints, shiftTypes) ==
  LET snake == Flatten(matrix)
      colCount == IF Len(matrix) > 0 THEN Len(matrix[1]) ELSE 7
      extendedSnake == snake \o SubSeq(snake, 1, Min2(colCount, Len(snake)))
  IN Len(validateSequenceWithConstraints(extendedSnake, constraints, shiftTypes))

\* the score in sevenths, like evaluateFitness
MatricesFitness(matrixMap, defaultMatrix, snakeErrors, context) ==
  LET baselineSchedule ==
        solveWithGreedyMatrices(context.employees, matrixMap, defaultMatrix, context.daysInMonth, 0)
      evaluationContext ==
        [employees |-> context.employees, shiftTypes |-> context.shiftTypes,
         constraints |-> context.constraints, coverageRules |-> context.coverageRules,
         baselineShifts |-> baselineSchedule, daysInMonth |-> context.daysInMonth,
         weights |-> NoWeights]
  IN 7 * 10000 * snakeErrors
       + evaluateFitness([schedule |-> baselineSchedule], evaluationContext).fitness7

calculateSingleMatrixFitness(targetMatrix, targetMatrixId, context) ==
  LET updatedMatrices ==
        [k \in 1..Len(context.allMatrices) |->
           IF context.allMatrices[k].id = targetMatrixId
             THEN [context.allMatrices[k] EXCEPT !.rows = targetMatrix]
             ELSE context.allMatrices[k]]
      matrixMap == [id \in {updatedMatrices[k].id : k \in 1..Len(updatedMatrices)} |->
                      updatedMatrices[CHOOSE k \in 1..Len(updatedMatrices) :
                                        updatedMatrices[k].id = id].rows]
  IN MatricesFitness(matrixMap, updatedMatrices[1].rows,
                     SnakeErrors(targetMatrix, context.constraints, context.shiftTypes), context)

crossover(p1, p2) ==
  {[r \in 1..Len(p1) |-> pick[r]] : pick \in Choices(1..Len(p1), LAMBDA r : {p1[r], p2[r]})}

\* mustFollowMap[shift], <<>> when there is none
mustFollowMap(constraints, shift) ==
  LET idx == {i \in 1..Len(constraints) :
                constraints[i].enabled /\ constraints[i].type = "must_follow"
                /\ constraints[i].shiftA = shift}
  IN IF idx = {} THEN <<>> ELSE constraints[CHOOSE i \in idx : \A k \in idx : k <= i].shiftB

getValidShiftsForCyclicPosition(row, pos, constraints, shiftTypes) ==
  LET colCount == Len(row)
      windowSize == Min2(colCount * 2, 14)
      halfWindow == windowSize \div 2
      testSequence(candidateShift) ==
        [k \in 1..(2 * halfWindow + 1) |->
           IF k <= halfWindow THEN At(row, (pos - (halfWindow - k + 1) + colCount) % colCount)
           ELSE IF k = halfWindow + 1 THEN candidateShift
           ELSE At(row, (pos + (k - halfWindow - 1)) % colCount)]
      ok(candidateShift) ==
        LET errors == validateSequenceWithConstraints(testSequence(candidateShift), constraints, shiftTypes)
        IN ~\E e \in 1..Len(errors) : Abs(errors[e].day - halfWindow) <= 1
  IN SelectSeq(Ids(shiftTypes), ok)

\* variant: the follower is written whether or not the matrix allows it
CellMutation_alwaysInsertFollower(matrix, r, constraints, availableShifts) ==
  LET rows == Len(matrix)
      cols == Len(matrix[1])
      available == IdSet(Ids(availableShifts))
      at(c, candidate) ==
        LET original == Cell(matrix, r, c)
            next == getNextPosition(r, c, rows, cols)
            follower == mustFollowMap(constraints, candidate)
            set == SetCell(matrix, r, c, candidate)
            inserted == IF follower # <<>>
                          THEN SetCell(set, next[1], next[2], follower) ELSE set
            oldFollower == mustFollowMap(constraints, original)
        IN IF /\ oldFollower # <<>>
              /\ candidate # original
              /\ Cell(inserted, next[1], next[2]) = oldFollower
              /\ follower = <<>>
             THEN {SetCell(inserted, next[1], next[2], x) : x \in available}
             ELSE {inserted}
      candidates(c) ==
        available \cup (IF constraints # <<>>
                          THEN IdSet(getValidShiftsForCyclicPosition(matrix[r + 1], c, constraints,
                                                                     availableShifts))
                          ELSE {})
  IN UNION {UNION {at(c, candidate) : candidate \in candidates(c)} : c \in 0..(cols - 1)}

\* one pass of the cell mutation loop body on row r
CellMutation(matrix, r, constraints, availableShifts) ==
  LET rows == Len(matrix)
      cols == Len(matrix[1])
      available == IdSet(Ids(availableShifts))
      at(c, candidate) ==
        LET original == Cell(matrix, r, c)
            next == getNextPosition(r, c, rows, cols)
            follower == mustFollowMap(constraints, candidate)
            set == SetCell(matrix, r, c, candidate)
            inserted == IF follower # <<>> /\ follower \in available
                          THEN SetCell(set, next[1], next[2], follower) ELSE set
            oldFollower == mustFollowMap(constraints, original)
        IN IF /\ oldFollower # <<>>
              /\ candidate # original
              /\ Cell(inserted, next[1], next[2]) = oldFollower
              /\ follower = <<>>
             THEN {SetCell(inserted, next[1], next[2], x) : x \in available}
             ELSE {inserted}
      candidates(c) ==
        available \cup (IF constraints # <<>>
                          THEN IdSet(getValidShiftsForCyclicPosition(matrix[r + 1], c, constraints,
                                                                     availableShifts))
                          ELSE {})
  IN UNION {UNION {at(c, candidate) : candidate \in candidates(c)} : c \in 0..(cols - 1)}

\* 1. Cell Mutation, one pass on row r of every matrix: left alone or mutated
MutateRow(matrices, r, constraints, availableShifts) ==
  matrices \cup UNION {CellMutation(m, r, constraints, availableShifts) : m \in matrices}

\* 1. Cell Mutation: every row is left alone or mutated once or twice
RECURSIVE CellMutations(_, _, _, _)
CellMutations(matrices, r, constraints, availableShifts) ==
  IF matrices = {} THEN {}
  ELSE IF r >= Len(CHOOSE m \in matrices : TRUE) THEN matrices
  ELSE CellMutations(MutateRow(MutateRow(matrices, r, constraints, availableShifts),
                               r, constraints, availableShifts),
                     r + 1, constraints, availableShifts)

\* Math.ceil(totalCells * rate * 0.5)
SwapCount(totalCells, rate) == (totalCells * rate + 1999) \div 2000

\* 2. one swap, a block swap when a swapped shift has a follower
Swap(matrix, constraints) ==
  LET rows == Len(matrix)
      cols == Len(matrix[1])
      at(r1, c1, r2, c2) ==
        LET shift1 == Cell(matrix, r1, c1)
            shift2 == Cell(matrix, r2, c2)
            next1 == getNextPosition(r1, c1, rows, cols)
            next2 == getNextPosition(r2, c2, rows, cols)
            nextShift1 == Cell(matrix, next1[1], next1[2])
            nextShift2 == Cell(matrix, next2[1], next2[2])
        IN IF mustFollowMap(constraints, shift1) # <<>> \/ mustFollowMap(constraints, shift2) # <<>>
             THEN SetCell(SetCell(SetCell(SetCell(matrix, r1, c1, shift2),
                                          next1[1], next1[2], nextShift2),
                                  r2, c2, shift1),
                          next2[1], next2[2], nextShift1)
             ELSE SetCell(SetCell(matrix, r1, c1, shift2), r2, c2, shift1)
  IN {at(r1, c1, r2, c2) : r1 \in 0..(rows - 1), c1 \in 0..(cols - 1),
                           r2 \in 0..(rows - 1), c2 \in 0..(cols - 1)}

RECURSIVE Swaps(_, _, _)
Swaps(matrices, swapCount, constraints) ==
  IF swapCount = 0 THEN matrices
  ELSE Swaps(UNION {Swap(m, constraints) : m \in matrices}, swapCount - 1, constraints)

\* 3. Row Rotation Mutation
Rotations(matrix) ==
  LET rotated(row) ==
        {SubSeq(row, k + 1, Len(row)) \o SubSeq(row, 1, k) :
           k \in IF Len(row) > 1 THEN 1..(Len(row) - 1) ELSE {1}}
      pick == Choices(1..Len(matrix), LAMBDA r : {matrix[r]} \cup rotated(matrix[r]))
  IN {[r \in 1..Len(matrix) |-> p[r]] : p \in pick}

\* the matrices mutate(ind, ...) can leave in ind.matrix
mutate(matrix, shiftTypes, rate, constraints, allowedShiftTypes) ==
  IF rate = 0 THEN {matrix}
  ELSE UNION {Rotations(m) :
                m \in Swaps(CellMutations({matrix}, 0, constraints, allowedShiftTypes),
                            SwapCount(Len(matrix) * Len(matrix[1]), rate), constraints)}

\* ---- joint mode: an individual holds one matrix per matrix id ----
ConfigIds(matrixConfigs) == {matrixConfigs[k].id : k \in 1..Len(matrixConfigs)}

SetCellIn(matrices, id, r, c, v) == [matrices EXCEPT ![id] = SetCell(@, r, c, v)]

\* every row is written at the columns 0..colCount-1 of the FIRST config,
\* whatever its own config.colCount (no config drawn here is wider than the first)
createSmartMultiMatrixIndividual(matrixConfigs, allowedShiftTypesMap, context) ==
  LET colCount == matrixConfigs[1].colCount
      matrixEmps(id) == SelectSeq(context.employees, LAMBDA e : e.matrixId = id)
      excludedOf(id, r) ==
        IF r <= Len(matrixEmps(id)) THEN matrixEmps(id)[r].excludedShifts ELSE <<>>
      slotsOf(config) ==
        [r \in 1..config.rowCount |->
           [matrixId |-> config.id, r |-> r, excluded |-> excludedOf(config.id, r),
            accepts |-> IdSet(Ids(allowedShiftTypesMap[config.id])),
            fill |-> FillChoices(Ids(allowedShiftTypesMap[config.id]), excludedOf(config.id, r),
                                 Head(Ids(allowedShiftTypesMap[config.id])))]]
      allSlots == Flatten([k \in 1..Len(matrixConfigs) |-> slotsOf(matrixConfigs[k])])
      required == [id \in {context.coverageRules[i].id : i \in 1..Len(context.coverageRules)} |->
                     context.coverageRules[CHOOSE i \in 1..Len(context.coverageRules) :
                                             context.coverageRules[i].id = id].min]
      column == SmartColumn(allSlots, NeededShifts(context.coverageRules, required))
      columns == [1..colCount -> column]
      slotIndex(id, r) == CHOOSE i \in 1..Len(allSlots) : allSlots[i].matrixId = id /\ allSlots[i].r = r
      rowCountOf(id) == matrixConfigs[CHOOSE k \in 1..Len(matrixConfigs) : matrixConfigs[k].id = id].rowCount
  IN {[id \in ConfigIds(matrixConfigs) |->
         [r \in 1..rowCountOf(id) |-> [c \in 1..colCount |-> cs[c][slotIndex(id, r)]]]] : cs \in columns}

calculateMultiMatrixFitness(matrices, context) ==
  LET ids == [k \in 1..Len(context.matrixConfigs) |-> context.matrixConfigs[k].id]
      errors == SeqSum([k \in 1..Len(ids) |->
                          SnakeErrors(matrices[ids[k]], context.constraints, context.shiftTypes)])
  IN MatricesFitness(matrices, matrices[ids[1]], errors, context)

crossoverMultiMatrix(p1, p2) ==
  Choices(DOMAIN p1, LAMBDA id : crossover(p1[id], p2[id]))

\* 2. one cross-matrix swap
SwapMulti(matrices, constraints, allowedIds(_)) ==
  LET dims(id) == <<Len(matrices[id]), Len(matrices[id][1])>>
      at(m1, r1, c1, m2, r2, c2) ==
        LET mat1 == matrices[m1]
            mat2 == matrices[m2]
            shift1 == Cell(mat1, r1, c1)
            shift2 == Cell(mat2, r2, c2)
            next1 == getNextPosition(r1, c1, Len(mat1), Len(mat1[1]))
            next2 == getNextPosition(r2, c2, Len(mat2), Len(mat2[1]))
            nextShift1 == Cell(mat1, next1[1], next1[2])
            nextShift2 == Cell(mat2, next2[1], next2[2])
        IN IF /\ (mustFollowMap(constraints, shift1) # <<>> \/ mustFollowMap(constraints, shift2) # <<>>)
              /\ dims(m1) = dims(m2)
             THEN IF /\ shift1 \in allowedIds(m2) /\ nextShift1 \in allowedIds(m2)
                     /\ shift2 \in allowedIds(m1) /\ nextShift2 \in allowedIds(m1)
                    THEN SetCellIn(SetCellIn(SetCellIn(SetCellIn(matrices, m1, r1, c1, shift2),
                                                       m1, next1[1], next1[2], nextShift2),
                                             m2, r2, c2, shift1),
                                   m2, next2[1], next2[2], nextShift1)
                    ELSE matrices
             ELSE IF shift2 \in allowedIds(m1) /\ shift1 \in allowedIds(m2)
                    THEN SetCellIn(SetCellIn(matrices, m1, r1, c1, shift2), m2, r2, c2, shift1)
                    ELSE matrices
      cellsOf(id) == {<<id, r, c>> : r \in 0..(Len(matrices[id]) - 1), c \in 0..(Len(matrices[id][1]) - 1)}
      cells == UNION {cellsOf(id) : id \in DOMAIN matrices}
  IN {at(a[1], a[2], a[3], b[1], b[2], b[3]) : a \in cells, b \in cells}

RECURSIVE SwapsMulti(_, _, _, _)
SwapsMulti(individuals, swapCount, constraints, allowedShiftTypesMap) ==
  IF swapCount = 0 THEN individuals
  ELSE SwapsMulti(UNION {SwapMulti(ms, constraints, LAMBDA id : IdSet(Ids(allowedShiftTypesMap[id]))) :
                           ms \in individuals},
                  swapCount - 1, constraints, allowedShiftTypesMap)

\* 4. Row Shuffle Mutation: two rows change places when both fit
RowShuffle(matrices, allowedIds(_)) ==
  LET at(m1, r1, m2, r2) ==
        LET row1 == matrices[m1][r1]
            row2 == matrices[m2][r2]
        IN IF /\ Len(row1) = Len(row2)
              /\ IdSet(row1) \subseteq allowedIds(m2)
              /\ IdSet(row2) \subseteq allowedIds(m1)
             THEN [[matrices EXCEPT ![m1][r1] = row2] EXCEPT ![m2][r2] = row1]
             ELSE matrices
      rowsOf(id) == {<<id, r>> : r \in 1..Len(matrices[id])}
      rows == UNION {rowsOf(id) : id \in DOMAIN matrices}
  IN {matrices} \cup {at(a[1], a[2], b[1], b[2]) : a \in rows, b \in rows}

\* totalCells of mutateMultiMatrix
TotalCells(matrices) ==
  Cardinality(UNION {{<<id, r, c>> : r \in 1..Len(matrices[id]), c \in 1..Len(matrices[id][1])} :
                       id \in DOMAIN matrices})

\* the matrices mutateMultiMatrix(ind, ...) can leave in ind.matrices: cell
\* mutation per matrix, cross-matrix swaps, row rotation, row shuffle
mutateMultiMatrix(matrices, shiftTypes, rate, constraints, allowedShiftTypesMap) ==
  IF rate = 0 THEN {matrices}
  ELSE UNION {RowShuffle(shuffled, LAMBDA id : IdSet(Ids(allowedShiftTypesMap[id]))) :
                shuffled \in UNION {Choices(DOMAIN ms, LAMBDA id : Rotations(ms[id])) :
                  ms \in SwapsMulti(Choices(DOMAIN matrices,
                                            LAMBDA id : CellMutations({matrices[id]}, 0, constraints,
                                                                      allowedShiftTypesMap[id])),
                                    SwapCount(TotalCells(matrices), rate), constraints,
                                    allowedShiftTypesMap)}}

\* ---- the two matrix jobs as the worker runs them ----

\* the matrix the user is editing: one row of two cells
ScnCurrent(scn) ==
  CASE scn = "rest"  -> << <<R, R>> >>
    [] scn = "empty" -> << >>
    [] OTHER         -> << <<M, R>> >>

\* GENERATE_MATRIX: columnCount 1 asks for a matrix narrower than the current one
SingleRequests ==
  [type : {"GENERATE_MATRIX"}, scenario : {"mixed", "rest"}, useCurrentAsSeed : BOOLEAN,
   columnCount : {1, 2}, ELITE_COUNT : {0, 1}]

\* GENERATE_ALL_MATRICES: two matrices of one cell, or one matrix without rows
JointRequests ==
  [type : {"GENERATE_ALL_MATRICES"}, scenario : {"mixed", "empty"},
   useCurrentAsSeed : BOOLEAN, columnCount : {1}, ELITE_COUNT : {1}]

IsSingle(r) == r.type = "GENERATE_MATRIX"

allMatrices(r) ==
  IF IsSingle(r) THEN << [id |-> "m1", rows |-> ScnCurrent(r.scenario)] >>
  ELSE CASE r.scenario = "empty" -> << [id |-> "m1", rows |-> << >>] >>
         [] OTHER                -> << [id |-> "m1", rows |-> << <<M>> >>],
                                       [id |-> "m2", rows |-> << <<N>> >>] >>

\* config = { ...DEFAULT_GA_CONFIG, ...options }
MatrixConfig(r) ==
  Spread(DEFAULT_GA_CONFIG,
         [useCurrentAsSeed |-> r.useCurrentAsSeed, POPULATION_SIZE |-> PopSizeM,
          MAX_GENERATIONS |-> MaxGenM, TIMEOUT_MS |-> TimeoutMsM, STAGNATION_LIMIT |-> StagLimitM,
          ELITE_COUNT |-> r.ELITE_COUNT])

targetMatrix(r) == allMatrices(r)[1]

\* rowCount as the host passes it: matrix.length > 0 ? matrix.length : null
numRows(r) ==
  LET rowCount == Len(targetMatrix(r).rows)
  IN OrElse(rowCount, OrElse(Len(targetMatrix(r).rows), Len(ScnEmployees(r.scenario))))

numCols(r) ==
  OrElse(r.columnCount,
         OrElse(IF Len(targetMatrix(r).rows) > 0 THEN Len(targetMatrix(r).rows[1]) ELSE 0, 7))

matrixConfigs(r) ==
  [k \in 1..Len(allMatrices(r)) |->
     LET m == allMatrices(r)[k]
     IN [id |-> m.id,
         rowCount |-> OrElse(Len(m.rows), Len(ScnEmployees(r.scenario))),
         colCount |-> OrElse(IF Len(m.rows) > 0 THEN Len(m.rows[1]) ELSE 0, r.columnCount)]]

allowedShiftTypes(r, matrixId) ==
  LET allowedIds == getAllowedShifts(ScnEmployees(r.scenario), matrixId, ShiftTypes,
                                     matrixId = allMatrices(r)[1].id)
  IN SelectSeq(ShiftTypes, LAMBDA st : Includes(allowedIds, st.id))

allowedShiftTypesMap(r) ==
  [id \in {allMatrices(r)[k].id : k \in 1..Len(allMatrices(r))} |-> allowedShiftTypes(r, id)]

MatrixContext(r) ==
  [shiftTypes |-> ShiftTypes, constraints |-> Constraints, coverageRules |-> ScnRules(r.scenario),
   employees |-> ScnEmployees(r.scenario), daysInMonth |-> DaysGA, allMatrices |-> allMatrices(r),
   targetMatrixId |-> targetMatrix(r).id, matrixConfigs |-> matrixConfigs(r)]

\* an individual and the matrix or matrices it holds
Individual(r, genome, fitness) ==
  IF IsSingle(r) THEN [matrix |-> genome, fitness |-> fitness]
                 ELSE [matrices |-> genome, fitness |-> fitness]

Genome(r, ind) == IF IsSingle(r) THEN ind.matrix ELSE ind.matrices

MatrixFitness(r, genome) ==
  IF IsSingle(r) THEN calculateSingleMatrixFitness(genome, targetMatrix(r).id, MatrixContext(r))
                 ELSE calculateMultiMatrixFitness(genome, MatrixContext(r))

\* the matrix or matrices of the request as an individual would hold them
CurrentGenome(r) ==
  IF IsSingle(r) THEN targetMatrix(r).rows
  ELSE [id \in {allMatrices(r)[k].id : k \in 1..Len(allMatrices(r))} |->
          allMatrices(r)[CHOOSE k \in 1..Len(allMatrices(r)) : allMatrices(r)[k].id = id].rows]

\* variant: the current matrix is never injected
SeedInjected_never(r) == FALSE

\* "if (config.useCurrentAsSeed && ...)": whether individual 0 is the current matrix
SeedInjected(r) ==
  /\ MatrixConfig(r).useCurrentAsSeed
  /\ IsSingle(r) => /\ Len(targetMatrix(r).rows) = numRows(r)
                    /\ Len(targetMatrix(r).rows[1]) = numCols(r)

\* the seed's fitness is computed on a matrix without rows: matrix[0].length throws
MatrixThrows(r) ==
  SeedInjected(r) /\ \E k \in 1..Len(allMatrices(r)) : Len(allMatrices(r)[k].rows) = 0

SmartGenomes(r) ==
  IF IsSingle(r)
    THEN createSmartIndividual(numRows(r), numCols(r), allowedShiftTypes(r, targetMatrix(r).id),
                               MatrixContext(r))
    ELSE createSmartMultiMatrixIndividual(matrixConfigs(r), allowedShiftTypesMap(r), MatrixContext(r))

ByFitness(a, b) == a.fitness < b.fitness

\* the seed individual, when it is injected
Seed(r) ==
  IF SeedInjected(r)
    THEN << Individual(r, CurrentGenome(r), MatrixFitness(r, CurrentGenome(r))) >>
    ELSE << >>

\* the individuals createSmartIndividual can build, with their fitness
SmartIndividuals(r) == {Individual(r, g, MatrixFitness(r, g)) : g \in SmartGenomes(r)}

\* the sorted initial populations
InitialPopulations(r) ==
  UNION {{StableSort(seed \o inds, ByFitness) :
            inds \in [1..(MatrixConfig(r).POPULATION_SIZE - Len(seed)) -> SmartIndividuals(r)]} :
           seed \in {Seed(r)}}

\* the genomes of the better half of the population
Parents(r, pop) ==
  {Genome(r, pop[i]) : i \in 1..Min2(Len(pop), (MatrixConfig(r).POPULATION_SIZE + 1) \div 2)}

\* the children one generation can push: crossover of two parents of the
\* better half, mutation, fitness
Children(r, pop) ==
  {Individual(r, g, MatrixFitness(r, g)) :
     g \in UNION {IF IsSingle(r)
                    THEN mutate(c, ShiftTypes, MatrixConfig(r).MUTATION_RATE, Constraints,
                                allowedShiftTypes(r, targetMatrix(r).id))
                    ELSE mutateMultiMatrix(c, ShiftTypes, MatrixConfig(r).MUTATION_RATE, Constraints,
                                           allowedShiftTypesMap(r)) :
              c \in UNION {IF IsSingle(r) THEN crossover(p[1], p[2])
                                         ELSE crossoverMultiMatrix(p[1], p[2]) :
                             p \in Parents(r, pop) \X Parents(r, pop)}}}

\* variant: the first individual of every generation becomes best
MatrixTrack_latest(pop, incumbent, stagnation) ==
  [best |-> pop[1], stagnationCount |-> IF pop[1].fitness < incumbent.fitness THEN 0 ELSE stagnation + 1]

\* "if (population[0].fitness < best.fitness)"
MatrixTrack(pop, incumbent, stagnation) ==
  IF pop[1].fitness < incumbent.fitness
    THEN [best |-> pop[1], stagnationCount |-> 0]
    ELSE [best |-> incumbent, stagnationCount |-> stagnation + 1]

\* why the while loop is left, Undefined when it goes on
MatrixStop(generation, elapsed, incumbent, stagnation, config) ==
  CASE ~(generation < config.MAX_GENERATIONS)  -> "generations"
    [] elapsed > config.TIMEOUT_MS              -> "timeout"
    [] incumbent.fitness = 0                    -> "target"
    [] stagnation >= config.STAGNATION_LIMIT    -> "stagnation"
    [] OTHER                                    -> Undefined

MatrixProgress(generation, incumbent, stagnation) ==
  [type |-> "PROGRESS", generation |-> generation, maxGenerations |-> MaxGenM,
   bestFitness |-> incumbent.fitness, stagnation |-> stagnation]

\* the job up to the loop: seed, smart individuals, sort, best
StartMatrixJob(r) ==
  /\ req' = r
  /\ IF MatrixThrows(r)
       THEN /\ msgs' = Append(msgs, [type |-> "ERROR"])
            /\ wPc' = "done"
            /\ UNCHANGED <<population, best, stagnationCount, gen>>
       ELSE /\ \E pop \in InitialPopulations(r) :
                 /\ population' = pop
                 /\ best' = pop[1]
            /\ stagnationCount' = 0
            /\ gen' = 0
            /\ wPc' = "mLoop"
            /\ UNCHANGED msgs
  /\ UNCHANGED <<hostVars, evVars, now, cancelled, newPopulation, bestFitness, bestChromosome, stoppedBy,
                 lastOffspring, result>>

\* self.onmessage, type GENERATE_MATRIX
ReceiveGenerateMatrix ==
  /\ wPc = "idle"
  /\ \E r \in SingleRequests : StartMatrixJob(r)

\* self.onmessage, type GENERATE_ALL_MATRICES
ReceiveGenerateAllMatrices ==
  /\ wPc = "idle"
  /\ \E r \in JointRequests : StartMatrixJob(r)

\* one pass of the while loop: elites, children, sort, best, progress
MatrixGeneration ==
  /\ wPc = "mLoop"
  /\ MatrixStop(gen, now, best, stagnationCount, MatrixConfig(req)) = Undefined
  /\ \E elites \in {SubSeq(population, 1, Min2(MatrixConfig(req).ELITE_COUNT, Len(population)))} :
     \E children \in {Children(req, population)} :
        \E pushed \in [1..(MatrixConfig(req).POPULATION_SIZE - Len(elites)) -> children] :
        \E pop \in {StableSort(elites \o pushed, ByFitness)} :
        \E t \in {MatrixTrack(pop, best, stagnationCount)} :
          /\ population' = pop
          /\ best' = t.best
          /\ stagnationCount' = t.stagnationCount
          /\ msgs' = IF (gen + 1) % 5 = 0
                       THEN Append(msgs, MatrixProgress(gen + 1, t.best, t.stagnationCount))
                       ELSE msgs
  /\ gen' = gen + 1
  /\ UNCHANGED <<hostVars, evVars, wPc, req, now, cancelled, newPopulation, bestFitness, bestChromosome,
                 stoppedBy, lastOffspring, result>>

\* the loop is left: return best.matrix / best.matrices
MatrixReturn ==
  /\ wPc = "mLoop"
  /\ MatrixStop(gen, now, best, stagnationCount, MatrixConfig(req)) # Undefined
  /\ stoppedBy' = MatrixStop(gen, now, best, stagnationCount, MatrixConfig(req))
  /\ result' = Genome(req, best)
  /\ wPc' = "mReturned"
  /\ UNCHANGED <<hostVars, evVars, req, msgs, now, cancelled, population, newPopulation, gen, bestFitness,
                 bestChromosome, best, stagnationCount, lastOffspring>>

\* the matrix job returned: postMessage SUCCESS
PostMatrixSuccess ==
  /\ wPc = "mReturned"
  /\ msgs' = Append(msgs, [type |-> "SUCCESS", payload |-> result])
  /\ wPc' = "done"
  /\ UNCHANGED <<hostVars, evVars, req, now, cancelled, gaVars>>

\* variant: a flag is set and the worker goes on
handleCancel_flagOnly ==
  /\ Running
  /\ ~cancelled
  /\ cancelled' = TRUE
  /\ UNCHANGED <<hostVars, evVars, wPc, req, msgs, now, gaVars>>

\* host, handleCancel: workerRef.current.terminate(); the worker runs no
\* further statement and delivers no further message
handleCancel ==
  /\ Running
  /\ wPc' = "terminated"
  /\ cancelled' = TRUE
  /\ UNCHANGED <<hostVars, evVars, req, msgs, now, gaVars>>

Init ==
  /\ evPc = "off"
  /\ evIn = NoOut
  /\ evOut = NoOut
  /\ InitJob

Next ==
  \/ ReceiveGenerate
  \/ InitIndividual
  \/ InitEvaluate
  \/ Tick
  \/ GABoundary
  \/ GAOffspringCrossover
  \/ GAOffspringClone
  \/ GAEvaluate
  \/ GAFinish
  \/ OptimizeReturn
  \/ PostSuccess
  \/ ReceiveGenerateMatrix
  \/ ReceiveGenerateAllMatrices
  \/ MatrixGeneration
  \/ MatrixReturn
  \/ PostMatrixSuccess
  \/ handleCancel

Spec == Init /\ [][Next]_vars

\* ------------------------------------------------------------------------
\* Claims about the schedule GA and the optimizer front end
\* ------------------------------------------------------------------------
InLoop == wPc \in {"boundary", "breed"}

LoopLeft == wPc \in {"final", "gaReturned", "optimized", "done"}

\* what is left of the loop: generations to evolve, then offspring to breed
LoopVariant ==
  (MaxGen - gen) * (PopSize + 2)
    + (IF wPc = "boundary" THEN PopSize + 1 ELSE PopSize - Len(newPopulation))

\* a stop condition of the claim holds at the boundary
StopHolds ==
  \/ bestFitness <= 0
  \/ now > TimeoutMs
  \/ stagnationCount >= StagLimit
  \/ gen >= MaxGen

\* C2: the schedule GA loop evolves at most maxGenerations generations; at a
\* generation boundary where the incumbent is at or below the target 0, the
\* timeout has elapsed or stagnationLimit generations passed without strict
\* improvement, it leaves the loop and never evolves again; a generation
\* resets the stagnation counter to 0 exactly when it strictly improves the
\* incumbent and increments it otherwise; every step of the loop that stays
\* in the loop strictly decreases a natural-valued measure, so the loop stops.
C2_LoopStops ==
  /\ [](InLoop => gen <= MaxGen)
  /\ [][(wPc = "boundary" /\ StopHolds /\ wPc' # wPc /\ ~cancelled') => wPc' = "final"]_vars
  /\ [][(wPc = "boundary" /\ wPc' = "breed") => ~StopHolds]_vars
  /\ [][LoopLeft => (gen' = gen /\ ~InLoop')]_vars
  /\ [][(wPc = "breed" /\ gen' = gen + 1) =>
          /\ (stagnationCount' = 0) <=> (bestFitness' < bestFitness)
          /\ (bestFitness' >= bestFitness) => (stagnationCount' = stagnationCount + 1)]_vars
  /\ [](InLoop => LoopVariant >= 0)
  /\ [][(InLoop /\ InLoop' /\ now' = now) => LoopVariant' < LoopVariant]_vars

\* C2 witness: the loop was left on stagnation, above the target and inside the generation budget
C2_Witness ==
  /\ wPc = "final"
  /\ stoppedBy = "stagnation"
  /\ stagnationCount = StagLimit
  /\ gen < MaxGen
  /\ bestFitness > 0

\* C3: the offspring of the no-crossover branch that is inserted into the
\* next population is the mutated individual, that is the individual the
\* mutation step (createOffspring on the clone) produced.
C3_CloneBranchInsertsMutated ==
  (wPc = "breed" /\ lastOffspring # NoOut /\ lastOffspring.branch = "clone")
     => lastOffspring.inserted = lastOffspring.returned

GARan == wPc \in {"optimized", "done"} /\ req.type = "GENERATE" /\ req.useGA /\ stoppedBy # Undefined

\* C5: optimizeSchedule with the GA enabled and an invalid final incumbent
\* returns, with greedyFallback, exactly the greedy baseline schedule marked
\* gaFailed, and without greedyFallback the GA result with success = false,
\* reason "constraints_violated" and the incumbent's shifts for every employee.
C5_InvalidIncumbent ==
  (GARan /\ ~bestChromosome.isValid) =>
     IF req.greedyFallback
       THEN /\ DOMAIN result.schedule = EmpIds
            /\ \A e \in EmpIds : result.schedule[e].shifts = Baseline(req)[e]
            /\ result.gaFailed = TRUE
       ELSE /\ result.success = FALSE
            /\ result.reason = "constraints_violated"
            /\ DOMAIN result.schedule = EmpIds
            /\ \A e \in EmpIds : result.schedule[e].shifts = bestChromosome.schedule[e]

\* C5 witness: fallback disabled, the invalid incumbent differs from the baseline
C5_Witness ==
  /\ GARan /\ ~bestChromosome.isValid /\ ~req.greedyFallback
  /\ result.reason = "constraints_violated"
  /\ bestChromosome.schedule # Baseline(req)

TerminalMsgs == {i \in 1..Len(msgs) : msgs[i].type \in {"SUCCESS", "ERROR"}}

Delivered == msgs[Len(msgs)].payload

ResultFields == {"success", "schedule", "fitness", "isValid", "generations", "method"}

MatrixStopHolds ==
  \/ gen >= MaxGenM
  \/ now > TimeoutMsM
  \/ best.fitness = 0
  \/ stagnationCount >= StagLimitM

JobReturned ==
  IF req.type = "GENERATE" THEN result # NoOut ELSE stoppedBy # Undefined

\* C8: for a GENERATE, GENERATE_MATRIX or GENERATE_ALL_MATRICES request the
\* worker posts PROGRESS messages and then exactly one terminal message,
\* SUCCESS if the job returned a value and ERROR if it threw, and no
\* PROGRESS after it.
C8_OneTerminalLast ==
  /\ Cardinality(TerminalMsgs) <= 1
  /\ \A i \in 1..Len(msgs) : msgs[i].type \in {"PROGRESS", "SUCCESS", "ERROR"}
  /\ TerminalMsgs # {} => (TerminalMsgs = {Len(msgs)} /\ wPc = "done")
  /\ wPc = "done" =>
       /\ TerminalMsgs = {Len(msgs)}
       /\ (msgs[Len(msgs)].type = "SUCCESS") <=> JobReturned
       /\ (msgs[Len(msgs)].type = "ERROR") <=> ~JobReturned
       /\ (JobReturned /\ req.type # "GENERATE") => msgs[Len(msgs)].payload = result

\* C8 witness: two progress messages, then SUCCESS
C8_Witness ==
  /\ wPc = "done"
  /\ Len(msgs) >= 3
  /\ msgs[1].type = "PROGRESS" /\ msgs[2].type = "PROGRESS"
  /\ msgs[Len(msgs)].type = "SUCCESS"

\* bestFitness of the progress events, in the order posted
ProgressFitness ==
  LET progress == SelectSeq(msgs, LAMBDA m : m.type = "PROGRESS")
  IN [i \in 1..Len(progress) |-> progress[i].bestFitness]

\* C1: in a run of the schedule GA and of either matrix GA the incumbent
\* best fitness never increases from one generation to the next, and the
\* bestFitness values of successive progress events are non-increasing.
C1_MonotoneIncumbent ==
  /\ [][(wPc \in {"boundary", "breed", "final"}) => (bestFitness' <= bestFitness)]_vars
  /\ [][(wPc = "mLoop") => (best'.fitness <= best.fitness)]_vars
  /\ [](\A i, j \in 1..Len(ProgressFitness) : i < j => ProgressFitness[j] <= ProgressFitness[i])

\* C1 witness: a matrix GA run whose second progress event reports a
\* strictly better incumbent than its first
C1_Witness ==
  /\ req # NoOut
  /\ req.type = "GENERATE_MATRIX"
  /\ Len(ProgressFitness) = 2
  /\ ProgressFitness[2] < ProgressFitness[1]

\* a current matrix is supplied for every matrix of the request
CurrentSupplied == \A k \in 1..Len(allMatrices(req)) : Len(allMatrices(req)[k].rows) > 0

MatrixJobReturned == wPc = "mReturned" /\ req.useCurrentAsSeed /\ CurrentSupplied

\* C4 as stated: with useCurrentAsSeed and a current matrix, the fitness of
\* what the matrix GA returns is at most the fitness of the current matrix
\* or matrices.
C4_SeedMonotone ==
  MatrixJobReturned => MatrixFitness(req, result) <= MatrixFitness(req, CurrentGenome(req))

\* in single-matrix mode the current matrix has the requested size
SameSize ==
  IsSingle(req) => /\ Len(ScnCurrent(req.scenario)) = numRows(req)
                   /\ Len(ScnCurrent(req.scenario)[1]) = req.columnCount

\* C4 as amended: with useCurrentAsSeed and a current matrix that, in
\* single-matrix mode, has exactly the requested number of rows and columns,
\* the fitness of what the matrix GA returns is the incumbent's and is at
\* most the fitness of the current matrix or matrices.
C4_SeedMonotoneSameSize ==
  (MatrixJobReturned /\ SameSize) =>
     /\ MatrixFitness(req, result) = best.fitness
     /\ MatrixFitness(req, result) <= MatrixFitness(req, CurrentGenome(req))

\* C4 witness: a seeded single-matrix run returns after some generations
\* with a last population that is worse than the current matrix, and still
\* returns a matrix no worse than it
C4_Witness ==
  /\ MatrixJobReturned /\ SameSize
  /\ IsSingle(req)
  /\ gen >= 1
  /\ population[1].fitness > MatrixFitness(req, CurrentGenome(req))
  /\ MatrixFitness(req, result) <= MatrixFitness(req, CurrentGenome(req))

\* ------------------------------------------------------------------------
\* Invalid configurations
\* ------------------------------------------------------------------------
\* a GENERATE job whose matrix has no rows or whose coverage rule names a
\* shift id that is not a declared shift type
InvalidConfig == req # NoOut /\ req.type = "GENERATE" /\ req.scenario \in {"empty", "unknown"}

\* C15: a job whose configuration holds an empty matrix or a rule that
\* references an undeclared shift id is rejected with an error before any
\* generation is evolved: no generation runs and the job ends with ERROR.
C15_InvalidConfigRejected ==
  InvalidConfig =>
    /\ gen = 0
    /\ \A k \in 1..Len(msgs) : msgs[k].type # "SUCCESS"
    /\ wPc = "done" => msgs # <<>> /\ msgs[Len(msgs)].type = "ERROR"

\* ========================================================================
\* The baseline builder: solveWithGreedy and generateBaselineSchedule
\* ========================================================================
DaysBase == 2

\* ga/geneticAlgorithm.js: canDoShift
canDoShift(emp, shift) == ~Includes(emp.excludedShifts, shift)

\* generateBaselineSchedule, step 1: baseline[emp.id] from the matrix pattern;
\* initialAssignments is Missing or << the assignment table >>
rawBaseline(employees, matrix, daysInMonth, dayOfWeekOffset, initialAssignments) ==
  [id \in {employees[k].id : k \in 1..Len(employees)} |->
     LET empIndex == (CHOOSE k \in 1..Len(employees) : employees[k].id = id) - 1
         found == IF initialAssignments = Missing THEN {}
                  ELSE {k \in 1..Len(initialAssignments[1]) : initialAssignments[1][k].employeeId = id}
         a == IF initialAssignments = Missing
                THEN [matrixRow |-> empIndex % Len(matrix), dayOffset |-> 0, hasHistory |-> FALSE]
              ELSE IF found = {} THEN [matrixRow |-> 0, dayOffset |-> 0, hasHistory |-> FALSE]
              ELSE initialAssignments[1][CHOOSE k \in found : \A k2 \in found : k <= k2]
     IN [day \in 1..daysInMonth |->
           At(Flatten(matrix),
              (a.matrixRow * Len(matrix[1]) + a.dayOffset + (day - 1)
                 + (IF a.hasHistory THEN 0 ELSE dayOfWeekOffset)) % Len(Flatten(matrix)))]]

\* generateBaselineSchedule, step 2 for one day: the columns (employee id ->
\* shift) the loop over the shuffled conflicts can end with, from conflict k on;
\* the swap partner is any of potentialPartners
RECURSIVE resolveConflicts(_, _, _, _, _)
resolveConflicts(column, conflicts, k, employees, shiftTypes) ==
  IF k > Len(conflicts) THEN {column}
  ELSE IF canDoShift(conflicts[k], column[conflicts[k].id])
    THEN resolveConflicts(column, conflicts, k + 1, employees, shiftTypes)
  ELSE LET focalEmp == conflicts[k]
           focalShift == column[focalEmp.id]
           potentialPartners ==
             {p \in 1..Len(employees) :
                /\ employees[p].id # focalEmp.id
                /\ canDoShift(employees[p], focalShift)
                /\ canDoShift(focalEmp, column[employees[p].id])}
           valid == {i \in 1..Len(shiftTypes) : canDoShift(focalEmp, shiftTypes[i].id)}
       IN IF potentialPartners # {}
            THEN UNION {resolveConflicts([id \in DOMAIN column |->
                                            IF id = focalEmp.id THEN column[employees[p].id]
                                            ELSE IF id = employees[p].id THEN focalShift
                                            ELSE column[id]],
                                         conflicts, k + 1, employees, shiftTypes) : p \in potentialPartners}
          ELSE IF valid # {}
            THEN resolveConflicts([id \in DOMAIN column |->
                                     IF id = focalEmp.id
                                       THEN shiftTypes[CHOOSE i \in valid : \A i2 \in valid : i <= i2].id
                                       ELSE column[id]],
                                  conflicts, k + 1, employees, shiftTypes)
          ELSE resolveConflicts(column, conflicts, k + 1, employees, shiftTypes)

\* the columns one day can end with: conflicts filtered in employee order,
\* then shuffled (Fisher-Yates with Math.random: any order), then resolved
dayOutcomes(column, employees, shiftTypes) ==
  LET conflicts == SelectSeq(employees, LAMBDA emp : ~canDoShift(emp, column[emp.id]))
  IN UNION {resolveConflicts(column, [i \in 1..Len(conflicts) |-> conflicts[p[i]]], 1, employees, shiftTypes) :
              p \in Perms(Len(conflicts))}

\* the baselines generateBaselineSchedule can return
generateBaselineSchedule(employees, matrix, daysInMonth, dayOfWeekOffset, initialAssignments, shiftTypes) ==
  LET raw == rawBaseline(employees, matrix, daysInMonth, dayOfWeekOffset, initialAssignments)
      columns == Choices(1..daysInMonth,
                         LAMBDA day : dayOutcomes([id \in DOMAIN raw |-> raw[id][day]], employees, shiftTypes))
  IN {[id \in DOMAIN raw |-> [day \in 1..daysInMonth |-> c[day][id]]] : c \in columns}

\* ------------------------------------------------------------------------
\* Probe: three employees bound to one 3x2 matrix, with exclusions
\* ------------------------------------------------------------------------
BaseIds == {"e1", "e2", "e3"}

BaseMatrix == << <<M, N>>, <<R, M>>, <<N, R>> >>

BaseEmployees(excluded) ==
  << [id |-> "e1", matrixId |-> "m1", excludedShifts |-> excluded["e1"]],
     [id |-> "e2", matrixId |-> "m1", excludedShifts |-> excluded["e2"]],
     [id |-> "e3", matrixId |-> "m1", excludedShifts |-> excluded["e3"]] >>

BaseHistory(withHistory) ==
  IF withHistory THEN [e1 |-> <<N, R>>, e2 |-> <<N, R>>] ELSE [e \in {} |-> <<>>]

InitBaseline ==
  /\ evPc = "baseline"
  /\ evIn \in [excluded : [BaseIds -> {<<>>, <<N>>, <<M>>, <<M, N, R>>}],
                firstDay : {1, 3},
                withHistory : BOOLEAN,
                withAssignments : BOOLEAN]
  /\ evOut = NoOut
  /\ InitJob

\* solveWithGreedy(params): the baseline solveWithGA hands to runGeneticAlgorithm
InvokeSolveWithGreedy ==
  /\ evPc = "baseline"
  /\ evPc' = "greedyBaseline"
  /\ evOut' = << solveWithGreedyFrom(BaseEmployees(evIn.excluded), [m1 |-> BaseMatrix], BaseMatrix,
                                     BaseHistory(evIn.withHistory), DaysBase,
                                     getFirstDayOfMonth(evIn.firstDay)).schedule >>
  /\ UNCHANGED <<hostVars, evIn, wVars, gaVars>>

\* generateBaselineSchedule(params), invoked once and then once more on the
\* same params; evOut collects the returned baselines
InvokeGenerateBaseline ==
  /\ evPc \in {"baseline", "generated"}
  /\ evPc' = IF evPc = "baseline" THEN "generated" ELSE "generatedTwice"
  /\ \E initialAssignments \in
          {IF evIn.withAssignments
             THEN << findOptimalMatrixAssignmentFrom(BaseEmployees(evIn.excluded), BaseMatrix,
                                                     BaseHistory(evIn.withHistory), Missing) >>
             ELSE Missing} :
       \E baseline \in generateBaselineSchedule(BaseEmployees(evIn.excluded), BaseMatrix, DaysBase,
                                                getFirstDayOfMonth(evIn.firstDay), initialAssignments,
                                                ShiftTypes) :
          evOut' = (IF evPc = "baseline" THEN <<>> ELSE evOut) \o << baseline >>
  /\ UNCHANGED <<hostVars, evIn, wVars, gaVars>>

NextBaseline == InvokeSolveWithGreedy \/ InvokeGenerateBaseline

SpecBaseline == InitBaseline /\ [][NextBaseline]_vars

BaselineBuilt == evPc \in {"greedyBaseline", "generated", "generatedTwice"}

HasAllowedShift(id) == \E i \in 1..Len(ShiftTypes) : ~Includes(evIn.excluded[id], ShiftTypes[i].id)

\* C21: in the baseline schedule produced by the baseline builder, no
\* employee is assigned on any day a shift that is in that employee's
\* excludedShifts, provided the employee has at least one allowed shift type.
C21_BaselineRespectsExclusions ==
  BaselineBuilt =>
    \A k \in 1..Len(evOut) : \A id \in BaseIds : \A day \in 1..DaysBase :
      HasAllowedShift(id) => ~Includes(evIn.excluded[id], evOut[k][id][day])

\* C22: the baseline builder is deterministic: two invocations with equal
\* matrices, employees, target month and previous-month history return
\* identical schedules.
C22_BaselineDeterministic ==
  evPc = "generatedTwice" => evOut[1] = evOut[2]

\* ========================================================================
\* mutateMultiMatrix on two matrices of one row
\* ========================================================================
MutCols == 2

\* mutation rate in thousandths
MutRate == 80

\* e1 is bound to m1 and excludes one shift, e2 is bound to m2
MutEmployees(excluded) ==
  << [id |-> "e1", matrixId |-> "m1", excludedShifts |-> excluded],
     [id |-> "e2", matrixId |-> "m2", excludedShifts |-> <<>>] >>

\* generateOptimalMatricesJointly: allowedShiftTypesMap
MutAllowedMap(excluded) ==
  [id \in {"m1", "m2"} |->
     SelectSeq(ShiftTypes,
               LAMBDA st : Includes(getAllowedShifts(MutEmployees(excluded), id, ShiftTypes, id = "m1"), st.id))]

MutAllowedIds(excluded, id) == IdSet(Ids(MutAllowedMap(excluded)[id]))

\* every cell of every matrix is in the allowed set of its matrix
AllCellsAllowed(matrices, excluded) ==
  \A id \in DOMAIN matrices : \A r \in 1..Len(matrices[id]) : \A c \in 1..Len(matrices[id][r]) :
    matrices[id][r][c] \in MutAllowedIds(excluded, id)

InitMutate ==
  /\ evPc = "mutate"
  /\ evIn \in {in \in [excluded : {<<N>>, <<R>>},
                       matrices : [m1 : [1..1 -> [1..MutCols -> {M, N, R}]],
                                   m2 : {<< [c \in 1..MutCols |-> x] >> : x \in {M, N}}]] :
                 AllCellsAllowed(in.matrices, in.excluded)}
  /\ evOut = NoOut
  /\ InitJob

\* mutateMultiMatrix(ind, shiftTypes, rate, constraints, allowedShiftTypesMap)
ProbeMutateMulti ==
  /\ evPc = "mutate"
  /\ evPc' = "mutated"
  /\ evOut' \in mutateMultiMatrix(evIn.matrices, ShiftTypes, MutRate, Constraints, MutAllowedMap(evIn.excluded))
  /\ UNCHANGED <<hostVars, evIn, wVars, gaVars>>

SpecMutate == InitMutate /\ [][ProbeMutateMulti]_vars

\* C23: if before mutateMultiMatrix every cell of every matrix is in that
\* matrix's allowed set (declared shifts minus the exclusions of the
\* employees bound to it), then after cell mutation, follower insertion and
\* deletion, cross-matrix swap, row rotation and row shuffle every cell is
\* still in its own matrix's allowed set.
C23_MutationKeepsAllowed ==
  evPc = "mutated" /\ AllCellsAllowed(evIn.matrices, evIn.excluded) =>
    AllCellsAllowed(evOut, evIn.excluded)

\* m1 may not hold N: a mutation wrote N and its follower R into m2 and
\* changed m1 as well
C23_Witness ==
  /\ evPc = "mutated"
  /\ evIn.excluded = <<N>>
  /\ evIn.matrices = [m1 |-> << <<M, M>> >>, m2 |-> << <<M, M>> >>]
  /\ evOut.m2 = << <<N, R>> >>
  /\ evOut.m1 # evIn.matrices.m1

\* ========================================================================
\* generateOptimalMatricesJointly on two one-row matrices
\* ========================================================================
JointCols == 2

\* allMatrices of the request: m1 has cols1 columns, m2 has cols2
JointMatrices(cols1, cols2) ==
  << [id |-> "m1", rows |-> << [c \in 1..cols1 |-> M] >>],
     [id |-> "m2", rows |-> << [c \in 1..cols2 |-> M] >>] >>

\* generateOptimalMatricesJointly: matrixConfigs
JointConfigs(matrices, employees, columnCount) ==
  [k \in 1..Len(matrices) |->
     [id |-> matrices[k].id,
      rowCount |-> OrElse(Len(matrices[k].rows), Len(employees)),
      colCount |-> OrElse(IF Len(matrices[k].rows) > 0 THEN Len(matrices[k].rows[1]) ELSE 0,
                          columnCount)]]

InitJoint ==
  /\ evPc = "jointInput"
  /\ evIn \in {in \in [cols1 : 1..JointCols, cols2 : 1..JointCols, excluded : {<<N>>, <<R>>},
                       coverageRules : {RulesMixed, RulesNone}] : in.cols2 <= in.cols1}
  /\ evOut = NoOut
  /\ InitJob

\* generateOptimalMatricesJointly({allMatrices, ..., options}) with
\* options.POPULATION_SIZE = 1, options.MAX_GENERATIONS = 0 and no seed:
\* the population is one smart individual and best.matrices is returned
ProbeJoint ==
  /\ evPc = "jointInput"
  /\ evPc' = "jointReturned"
  /\ evOut' \in createSmartMultiMatrixIndividual(
                  JointConfigs(JointMatrices(evIn.cols1, evIn.cols2), MutEmployees(evIn.excluded), 7),
                  MutAllowedMap(evIn.excluded),
                  [employees |-> MutEmployees(evIn.excluded), coverageRules |-> evIn.coverageRules])
  /\ UNCHANGED <<hostVars, evIn, wVars, gaVars>>

SpecJoint == InitJoint /\ [][ProbeJoint]_vars

InputRows(id) ==
  JointMatrices(evIn.cols1, evIn.cols2)[CHOOSE k \in 1..2 :
                                          JointMatrices(evIn.cols1, evIn.cols2)[k].id = id].rows

\* C24: every matrix returned by the joint matrix GA has the same row count
\* and column count as the corresponding input matrix, and every one of its
\* cells is one of the declared shift ids, including when the input matrices
\* have different column counts.
C24_JointKeepsShape ==
  evPc = "jointReturned" =>
    \A id \in {"m1", "m2"} :
      /\ Len(evOut[id]) = Len(InputRows(id))
      /\ \A r \in 1..Len(evOut[id]) :
           /\ Len(evOut[id][r]) = Len(InputRows(id)[r])
           /\ \A c \in 1..Len(evOut[id][r]) : evOut[id][r][c] \in ShiftIdSet(ShiftTypes)

\* ========================================================================
\* getValidShiftsForCyclicPosition on one cyclic row
\* ========================================================================
CycLen == 4

MaxConsecutive(shift, days) ==
  [id |-> "mc", type |-> "max_consecutive", shiftA |-> <<>>, shiftB |-> <<>>, shift |-> shift,
   days |-> days, enabled |-> TRUE]

MinGap(A, B, days) ==
  [id |-> "mg", type |-> "min_gap", shiftA |-> A, shiftB |-> B, shift |-> <<>>, days |-> days,
   enabled |-> TRUE]

\* the constraint lists of the probe
CyclicConstraintLists ==
  {Constraints, << MaxConsecutive(M, 2) >>, << MinGap(N, M, 2) >>, << MustFollow(N, R) >>}

InitCyclic ==
  /\ evPc = "cyclic"
  /\ evIn \in {in \in [row : UNION {[1..n -> {M, N, R}] : n \in 2..CycLen}, pos : 0..(CycLen - 1),
                       constraints : CyclicConstraintLists] : in.pos < Len(in.row)}
  /\ evOut = NoOut
  /\ InitJob

\* getValidShiftsForCyclicPosition(row, pos, constraints, shiftTypes)
ProbeCyclic ==
  /\ evPc = "cyclic"
  /\ evPc' = "validShifts"
  /\ evOut' = getValidShiftsForCyclicPosition(evIn.row, evIn.pos, evIn.constraints, ShiftTypes)
  /\ UNCHANGED <<hostVars, evIn, wVars, gaVars>>

SpecCyclic == InitCyclic /\ [][ProbeCyclic]_vars

\* cell i of the row read as a ring
RingAt(ring, i) == At(ring, ((i % Len(ring)) + Len(ring)) % Len(ring))

\* constraint c is violated on the ring at a place that involves cell pos
RingViolationAt(ring, pos, c) ==
  CASE c.type = "must_follow" ->
         \/ shiftMatches(RingAt(ring, pos), c.shiftA) /\ ~shiftMatches(RingAt(ring, pos + 1), c.shiftB)
         \/ shiftMatches(RingAt(ring, pos - 1), c.shiftA) /\ ~shiftMatches(RingAt(ring, pos), c.shiftB)
    [] c.type = "cannot_follow" ->
         \/ shiftMatches(RingAt(ring, pos), c.shiftA) /\ shiftMatches(RingAt(ring, pos + 1), c.shiftB)
         \/ shiftMatches(RingAt(ring, pos - 1), c.shiftA) /\ shiftMatches(RingAt(ring, pos), c.shiftB)
    [] c.type = "max_consecutive" ->
         \E start \in 0..c.days :
           \A k \in 0..c.days : shiftMatches(RingAt(ring, pos - start + k), c.shift)
    [] c.type = "min_gap" ->
         \/ /\ shiftMatches(RingAt(ring, pos), c.shiftA)
            /\ \E j \in 1..c.days : shiftMatches(RingAt(ring, pos + j), c.shiftB)
         \/ /\ shiftMatches(RingAt(ring, pos), c.shiftB)
            /\ \E j \in 1..c.days : shiftMatches(RingAt(ring, pos - j), c.shiftA)
    [] OTHER -> FALSE

\* the row with the shift written at pos
Written(row, pos, shift) == [row EXCEPT ![pos + 1] = shift]

RingSafe(row, pos, shift, constraints) ==
  \A k \in 1..Len(constraints) :
    constraints[k].enabled => ~RingViolationAt(Written(row, pos, shift), pos, constraints[k])

\* C25: every shift id returned by getValidShiftsForCyclicPosition can be
\* written at the position without the row, read as a ring, containing a
\* violation of an enabled constraint in which the written cell participates.
C25_CyclicShiftsAreRingSafe ==
  evPc = "validShifts" =>
    \A k \in 1..Len(evOut) : RingSafe(evIn.row, evIn.pos, evOut[k], evIn.constraints)

\* ========================================================================
\* swapMutation on one chromosome
\* ========================================================================
DaysSwap == 2

SwapEmployees == BaseEmployees([e1 |-> <<N>>, e2 |-> <<>>, e3 |-> <<M>>])

InitSwapMutation ==
  /\ evPc = "swapInput"
  /\ evIn \in {[schedule |-> [e1 |-> a, e2 |-> b, e3 |-> [d \in 1..DaysSwap |-> x]]] :
                 a \in [1..DaysSwap -> {M, N, R}], b \in [1..DaysSwap -> {M, N, R}], x \in {M, N, R}}
  /\ evOut = NoOut
  /\ InitJob

\* swapMutation(chromosome, employees, daysInMonth, mutationRate)
ProbeSwapMutation ==
  /\ evPc = "swapInput"
  /\ evPc' = "swapped"
  /\ evOut' \in swapMutation({evIn.schedule}, SwapEmployees, DaysSwap, 1)
  /\ UNCHANGED <<hostVars, evIn, wVars, gaVars>>

SpecSwapMutation == InitSwapMutation /\ [][ProbeSwapMutation]_vars

\* number of employees holding the shift on the day
ColumnCount(schedule, day, shift) == Cardinality({e \in DOMAIN schedule : schedule[e][day] = shift})

ExcludedOf(employees, id) == employees[CHOOSE i \in 1..Len(employees) : employees[i].id = id].excludedShifts

\* C26: swapMutation only exchanges the shifts of two employees on the same
\* day, so every day keeps its multiset of shifts across employees, and an
\* exchange happens only if neither employee receives a shift listed in
\* their excludedShifts.
C26_SwapExchangesAllowedPairs ==
  evPc = "swapped" =>
    \A day \in 1..DaysSwap :
      /\ \A sh \in {M, N, R} : ColumnCount(evOut, day, sh) = ColumnCount(evIn.schedule, day, sh)
      /\ \/ \A e \in BaseIds : evOut[e][day] = evIn.schedule[e][day]
         \/ \E a, b \in BaseIds :
              /\ a # b
              /\ evOut[a][day] = evIn.schedule[b][day]
              /\ evOut[b][day] = evIn.schedule[a][day]
              /\ \A e \in BaseIds \ {a, b} : evOut[e][day] = evIn.schedule[e][day]
              /\ ~Includes(ExcludedOf(SwapEmployees, a), evOut[a][day])
              /\ ~Includes(ExcludedOf(SwapEmployees, b), evOut[b][day])

\* e1 and e2 exchanged M and R on the first day; on the second day e2 holds
\* N, which e1 excludes, and the day is unchanged
C26_Witness ==
  /\ evPc = "swapped"
  /\ evIn.schedule = [e1 |-> <<M, R>>, e2 |-> <<R, N>>, e3 |-> <<R, R>>]
  /\ evOut = [e1 |-> <<R, R>>, e2 |-> <<M, N>>, e3 |-> <<R, R>>]

\* ========================================================================
\* guidedMutation on one chromosome
\* ========================================================================
DaysGuided == 2

GuidedBaseline == [e1 |-> [d \in 1..DaysGuided |-> IF d = 1 THEN M ELSE N],
                   e2 |-> [d \in 1..DaysGuided |-> R]]

InitGuidedMutation ==
  /\ evPc = "guidedInput"
  /\ evIn \in {[schedule |-> [e1 |-> a, e2 |-> [d \in 1..DaysGuided |-> x]],
                selected |-> sel, baselineAdherence |-> adh] :
                 a \in [1..DaysGuided -> {M, N, R}], x \in {M, N, R},
                 sel \in SUBSET ({"e1", "e2"} \X (1..DaysGuided)), adh \in {0, 70, 100}}
  /\ evOut = NoOut
  /\ InitJob

\* guidedMutation(chromosome, employees, baselineShifts, daysInMonth,
\* mutationRate, baselineAdherence)
ProbeGuidedMutation ==
  /\ evPc = "guidedInput"
  /\ evPc' = "guided"
  /\ evOut' \in guidedMutationWith(evIn.schedule, GuidedBaseline, evIn.selected, evIn.baselineAdherence)
  /\ UNCHANGED <<hostVars, evIn, wVars, gaVars>>

SpecGuidedMutation == InitGuidedMutation /\ [][ProbeGuidedMutation]_vars

\* the cells of the schedule that differ from the baseline
DiffersFromBaseline(schedule, baselineShifts) ==
  {c \in CellsOf(schedule) : schedule[c[1]][c[2]] # baselineShifts[c[1]][c[2]]}

\* C27: guidedMutation changes a cell only by setting it to the baseline
\* shift of that employee and day: a cell equal to the baseline is never
\* changed, the number of cells differing from the baseline never increases,
\* and with baselineAdherence = 1.0 every selected cell that differed from
\* the baseline equals it afterwards.
C27_GuidedMovesTowardBaseline ==
  evPc = "guided" =>
    /\ \A c \in CellsOf(evIn.schedule) :
         /\ evOut[c[1]][c[2]] # evIn.schedule[c[1]][c[2]] => evOut[c[1]][c[2]] = GuidedBaseline[c[1]][c[2]]
         /\ evIn.schedule[c[1]][c[2]] = GuidedBaseline[c[1]][c[2]]
              => evOut[c[1]][c[2]] = evIn.schedule[c[1]][c[2]]
    /\ Cardinality(DiffersFromBaseline(evOut, GuidedBaseline))
         <= Cardinality(DiffersFromBaseline(evIn.schedule, GuidedBaseline))
    /\ evIn.baselineAdherence = 100 =>
         \A c \in evIn.selected : evOut[c[1]][c[2]] = GuidedBaseline[c[1]][c[2]]

\* adherence 1.0: the selected differing cell of e1 reverted to M, the
\* unselected differing cells of e2 stayed
C27_Witness ==
  /\ evPc = "guided"
  /\ evIn.baselineAdherence = 100
  /\ evIn.schedule = [e1 |-> <<R, N>>, e2 |-> <<M, M>>]
  /\ evIn.selected = {<<"e1", 1>>, <<"e1", 2>>}
  /\ evOut = [e1 |-> <<M, N>>, e2 |-> <<M, M>>]

\* ========================================================================
\* The schedule GA and its baseline
\* ========================================================================
\* fitness (in sevenths) of a schedule in the context of the running job
FitnessOf(schedule) == evaluateFitness([schedule |-> schedule], Context(req)).fitness7

\* C28: individual 0 of the initial schedule-GA population is an exact copy
\* of the greedy baseline, and the fitness of the schedule returned by
\* runGeneticAlgorithm is never greater than the fitness of the baseline.
C28_BaselineIsFloor ==
  /\ wPc = "init" => newPopulation[1] = Baseline(req)
  /\ wPc = "gaReturned" =>
       /\ result.fitness <= FitnessOf(Baseline(req))
       /\ FitnessOf(result.schedule) <= FitnessOf(Baseline(req))

\* the GA returned a schedule that is strictly fitter than the baseline
C28_Witness ==
  /\ wPc = "gaReturned"
  /\ result.schedule # Baseline(req)
  /\ FitnessOf(result.schedule) < FitnessOf(Baseline(req))

\* ========================================================================
\* One swap of the matrix GA's swap mutation, single and joint mode
\* ========================================================================
SwapCols == 3

InitBlockSwap ==
  /\ evPc = "swapCells"
  /\ evIn \in [m1 : [1..1 -> [1..SwapCols -> {M, N, R}]],
               m2 : {<< [c \in 1..SwapCols |-> x] >> : x \in {M, N, R}}]
  /\ evOut = NoOut
  /\ InitJob

\* mutate: one iteration of the swap loop on the matrix m1
ProbeSwapSingle ==
  /\ evPc = "swapCells"
  /\ evPc' = "swappedSingle"
  /\ evOut' \in {[evIn EXCEPT !.m1 = m] : m \in Swap(evIn.m1, Constraints)}
  /\ UNCHANGED <<hostVars, evIn, wVars, gaVars>>

\* mutateMultiMatrix: one iteration of the swap loop on the matrices m1, m2,
\* every shift type allowed in both
ProbeSwapJoint ==
  /\ evPc = "swapCells"
  /\ evPc' = "swappedJoint"
  /\ evOut' \in SwapMulti(evIn, Constraints, LAMBDA id : {M, N, R})
  /\ UNCHANGED <<hostVars, evIn, wVars, gaVars>>

NextBlockSwap == ProbeSwapSingle \/ ProbeSwapJoint

SpecBlockSwap == InitBlockSwap /\ [][NextBlockSwap]_vars

\* the cells <<matrix id, row, column>> (0-based) of the matrices
MatrixCells(matrices) ==
  UNION {{<<id, r, c>> : r \in 0..(Len(matrices[id]) - 1), c \in 0..(Len(matrices[id][1]) - 1)} :
           id \in DOMAIN matrices}

CellAt(matrices, cell) == Cell(matrices[cell[1]], cell[2], cell[3])

\* the cell after the given one, in its matrix
NextCell(matrices, cell) ==
  LET next == getNextPosition(cell[2], cell[3], Len(matrices[cell[1]]), Len(matrices[cell[1]][1]))
  IN <<cell[1], next[1], next[2]>>

ShiftCount(matrices, shift) ==
  Cardinality({cell \in MatrixCells(matrices) : CellAt(matrices, cell) = shift})

\* the swap exchanged the cells a and b, with the cells after them when one
\* of the two shifts enforces a follower, and changed nothing else
ExchangedAt(before, after, a, b) ==
  LET block == mustFollowMap(Constraints, CellAt(before, a)) # <<>>
               \/ mustFollowMap(Constraints, CellAt(before, b)) # <<>>
      moved == IF block THEN {a, b, NextCell(before, a), NextCell(before, b)} ELSE {a, b}
  IN /\ CellAt(after, a) = CellAt(before, b)
     /\ CellAt(after, b) = CellAt(before, a)
     /\ block => /\ CellAt(after, NextCell(before, a)) = CellAt(before, NextCell(before, b))
                 /\ CellAt(after, NextCell(before, b)) = CellAt(before, NextCell(before, a))
     /\ \A cell \in MatrixCells(before) \ moved : CellAt(after, cell) = CellAt(before, cell)

\* C29: the matrix-GA swap mutation is a permutation of the matrix cells:
\* the multiset of shifts in the matrix (in joint mode, across all matrices)
\* is the same before and after each swap, and when a swapped cell's shift
\* enforces a follower, that cell and the cell following it arrive together,
\* adjacent and in the same order, at the other location.
C29_SwapIsPermutation ==
  evPc \in {"swappedSingle", "swappedJoint"} =>
    /\ \A sh \in {M, N, R} : ShiftCount(evOut, sh) = ShiftCount(evIn, sh)
    /\ \E a, b \in MatrixCells(evIn) : ExchangedAt(evIn, evOut, a, b)

\* ========================================================================
\* The host components: schedule generation in App, matrix generation in
\* MatrixEditor. Each creates a Worker per job and keeps it in workerRef.
\* A worker posts PROGRESS messages and then one SUCCESS or ERROR (worker.js);
\* worker.terminate() stops it and discards its messages not yet dispatched.
\* ========================================================================
MaxInbox == 2
MaxTimers == 1

InitHost ==
  /\ evPc = "off"
  /\ evIn = NoOut
  /\ evOut = NoOut
  /\ JobIdle
  /\ component \in {"App", "MatrixEditor"}
  /\ HostIdle

\* created and not terminated
Live(w) == workers[w] \in {"running", "finished"}

LiveWorkers == {w \in 1..MaxWorkers : Live(w)}

\* worker.terminate() on worker w
terminate(ws, ib, w) ==
  LET kept == SelectSeq(ib, LAMBDA m : m.worker # w)
  IN [workers |-> [v \in 1..MaxWorkers |-> IF v = w THEN "terminated" ELSE ws[v]],
      inbox |-> kept, discarded |-> Len(ib) - Len(kept)]

\* if (workerRef.current) { workerRef.current.terminate(); workerRef.current = null; }
terminateCurrent(ref, ws, ib) ==
  IF ref # 0 THEN terminate(ws, ib, ref) ELSE [workers |-> ws, inbox |-> ib, discarded |-> 0]

\* variant: the new worker is created without terminating the existing one
generateFrom_noTerminate(ref, ws, ib) ==
  LET new == CHOOSE w \in 1..MaxWorkers : ws[w] = "none" /\ \A v \in 1..(w - 1) : ws[v] # "none"
  IN [workerRef |-> new,
      workers |-> [v \in 1..MaxWorkers |-> IF v = new THEN "running" ELSE ws[v]],
      inbox |-> ib, discarded |-> 0,
      superseded |-> IF ref # 0 THEN {ref} ELSE {}]

\* generate, handleGenerate, handleGenerateAll: terminate the existing worker
\* if any, then new Worker(...) into workerRef.current
generateFrom(ref, ws, ib) ==
  LET t == terminateCurrent(ref, ws, ib)
      new == CHOOSE w \in 1..MaxWorkers : ws[w] = "none" /\ \A v \in 1..(w - 1) : ws[v] # "none"
  IN [workerRef |-> new,
      workers |-> [v \in 1..MaxWorkers |-> IF v = new THEN "running" ELSE t.workers[v]],
      inbox |-> t.inbox, discarded |-> t.discarded,
      superseded |-> IF ref # 0 THEN {ref} ELSE {}]

\* the body of generate / handleGenerate / handleGenerateAll
StartJob ==
  /\ \E w \in 1..MaxWorkers : workers[w] = "none"
  /\ \E g \in {generateFrom(workerRef, workers, inbox)} :
       /\ workerRef' = g.workerRef
       /\ workers' = g.workers
       /\ inbox' = g.inbox
       /\ superseded' = superseded \cup g.superseded
       /\ handled' = [op |-> "generate", discarded |-> g.discarded]
  /\ isGenerating' = TRUE
  /\ UNCHANGED <<evVars, wVars, gaVars, component, applied>>

\* App: generate(options) with employees; MatrixEditor: handleGenerate,
\* handleGenerateAll
generate ==
  /\ component \in {"App", "MatrixEditor"}
  /\ StartJob
  /\ UNCHANGED timers

\* App, handleSwitchToGreedy: terminate, then setTimeout(generate, 100)
handleSwitchToGreedy ==
  /\ component = "App"
  /\ timers < MaxTimers
  /\ \E t \in {terminateCurrent(workerRef, workers, inbox)} :
       /\ workers' = t.workers
       /\ inbox' = t.inbox
       /\ handled' = [op |-> "switchToGreedy", discarded |-> t.discarded]
  /\ superseded' = superseded \cup (IF workerRef # 0 THEN {workerRef} ELSE {})
  /\ workerRef' = 0
  /\ timers' = timers + 1
  /\ UNCHANGED <<evVars, wVars, gaVars, component, applied, isGenerating>>

\* App: the timeout of handleSwitchToGreedy fires: generate({forceGreedy: true})
SwitchTimerFires ==
  /\ component = "App"
  /\ timers > 0
  /\ timers' = timers - 1
  /\ StartJob

\* host handleCancel of App and of MatrixEditor
HostCancel ==
  /\ component \in {"App", "MatrixEditor"}
  /\ \E t \in {terminateCurrent(workerRef, workers, inbox)} :
       /\ workers' = t.workers
       /\ inbox' = t.inbox
       /\ handled' = [op |-> "cancel", discarded |-> t.discarded]
  /\ superseded' = superseded \cup (IF workerRef # 0 THEN {workerRef} ELSE {})
  /\ workerRef' = 0
  /\ isGenerating' = FALSE
  /\ UNCHANGED <<evVars, wVars, gaVars, component, applied, timers>>

\* worker.js: self.postMessage of a PROGRESS, or of the final SUCCESS or ERROR
WorkerPost ==
  /\ component \in {"App", "MatrixEditor"}
  /\ Len(inbox) < MaxInbox
  /\ \E w \in 1..MaxWorkers : \E type \in {"PROGRESS", "SUCCESS", "ERROR"} :
       /\ workers[w] = "running"
       /\ inbox' = Append(inbox, [worker |-> w, type |-> type])
       /\ workers' = [v \in 1..MaxWorkers |->
                        IF v = w /\ type # "PROGRESS" THEN "finished" ELSE workers[v]]
  /\ handled' = [op |-> "post", discarded |-> 0]
  /\ UNCHANGED <<evVars, wVars, gaVars, component, workerRef, superseded, applied, timers, isGenerating>>

\* worker.onmessage of the worker that posted the oldest message in flight
OnMessage ==
  /\ component \in {"App", "MatrixEditor"}
  /\ inbox # <<>>
  /\ applied' = Head(inbox)
  /\ IF Head(inbox).type = "PROGRESS"
       THEN /\ inbox' = Tail(inbox)
            /\ handled' = [op |-> "message", discarded |-> 0]
            /\ UNCHANGED <<workers, workerRef, isGenerating>>
       ELSE /\ \E t \in {terminate(workers, Tail(inbox), Head(inbox).worker)} :
                 /\ workers' = t.workers
                 /\ inbox' = t.inbox
                 /\ handled' = [op |-> "message", discarded |-> t.discarded]
            /\ workerRef' = 0
            /\ IF component = "MatrixEditor"
                 THEN isGenerating' = FALSE
                 ELSE IF Head(inbox).type = "SUCCESS"
                   \* payload.metadata.failed keeps the overlay open
                   THEN \E failed \in BOOLEAN : isGenerating' = (failed /\ isGenerating)
                   ELSE isGenerating' = isGenerating
  /\ UNCHANGED <<evVars, wVars, gaVars, component, superseded, timers>>

NextHost ==
  \/ generate
  \/ handleSwitchToGreedy
  \/ SwitchTimerFires
  \/ HostCancel
  \/ WorkerPost
  \/ OnMessage

SpecHost == InitHost /\ [][NextHost]_vars

\* C30: each host component has at most one live optimisation worker at any
\* time: starting a new job or cancelling terminates the in-flight worker
\* first, and no PROGRESS, SUCCESS or ERROR message of a superseded or
\* cancelled job is applied to host state (or left in flight) afterwards.
C30_OneLiveWorker ==
  component \in {"App", "MatrixEditor"} =>
    /\ Cardinality(LiveWorkers) <= 1
    /\ handled.op = "generate" => LiveWorkers = {workerRef}
    /\ handled.op \in {"cancel", "switchToGreedy"} => LiveWorkers = {}
    /\ handled.op = "message" => applied.worker \notin superseded
    /\ \A k \in 1..Len(inbox) : inbox[k].worker \notin superseded

\* a new job superseded worker 1 while messages of it were in flight
C30_Witness ==
  /\ handled = [op |-> "generate", discarded |-> 2]
  /\ superseded = {1}
  /\ workerRef = 2
  /\ workers[1] = "terminated"

====
